---------------------------- MODULE Spec2Model ----------------------------
(***************************************************************************)
(* CiteSphere2: the citation-network engine.                               *)
(*                                                                         *)
(* The model follows the server sources:                                   *)
(*   src/server/routes.ts, second registerRoutes (lines 218-510):          *)
(*       the staged generate-network handler (collectPmids, batched        *)
(*       fetch, parse + edge filter);                                      *)
(*   src/unnamed/part_000: the interleaved generate-network handler        *)
(*       (processPaper with concurrent recursion);                         *)
(*   src/server/routes.ts, first registerRoutes (lines 45-167): the        *)
(*       interleaved handler that awaits each child in turn;               *)
(*   src/server/services/pubmedService.ts: resolver, fetcher + cache,      *)
(*       link discovery;                                                   *)
(*   src/server/storage.ts, src/shared/schema.ts: the stores.              *)
(*                                                                         *)
(* One step of the model is one run of JavaScript between two suspension   *)
(* points: the code from the resumption of an await up to the next await   *)
(* runs without interruption (single-threaded event loop).                 *)
(***************************************************************************)
EXTENDS Integers, Sequences, FiniteSets, TLC

\* ------------------------------------------------------------------ bounds
NumIds == 4          \* internal ids (PMIDs) known to the upstream service
NumLinked == 3       \* ids an unconstrained link answer may name (Spec)
NumDois == 1         \* external ids; DOI d resolves upstream to PMID d
MaxDepth == 2        \* largest requested depth
MaxLinks == 2        \* longest list a link-discovery call returns
MaxItems == 2        \* longest links value of one linksetdb (SpecLinks)
MaxDbs == 2          \* most linksetdbs in one elink response (SpecLinks)
MaxResults == 2      \* largest maxResults passed to a link call (SpecLinks)
MaxGraphLinks == 4   \* most links in a fixed upstream graph (SpecGraph)
MaxPmids == 12       \* longest visited-set of the batched fetch loop (SpecBatch)
NumReq == 2          \* generate-network requests running at once (SpecStore)

\* ------------------------------------------------------- program constants
batchSize == 10      \* routes.ts:352
DefaultDepth == 2    \* routes.ts:264  const { doi, depth = 2 } = req.body

Ids == 1..NumIds
Dois == 1..NumDois
NoDoi == 0                      \* request body without a doi
Depths == 0..MaxDepth
Reqs == 1..NumReq
Linked == 1..NumLinked
LinkLists == UNION {[1..n -> Linked] : n \in 0..MaxLinks}

Null == "null"                  \* JavaScript null / undefined
NoFile == "nofile"              \* no cache file for the id
\* raw records: the empty payload, a well-formed record, a malformed one
Xml == {"", "ok", "bad"}
Fail == "fail"                  \* the upstream call threw or was not OK
NoLevel == -1
NoPmid == 0                     \* null where a PMID is expected
NoDepth == -1                   \* request body without a depth

Min(a, b) == IF a <= b THEN a ELSE b
Range(s) == {s[i] : i \in 1..Len(s)}
Truthy(x) == x /= Null /\ x /= ""

VARIABLES
    build,      \* which generate-network handler is deployed
    req,        \* the generate-network requests, per request id
    networks,   \* Network Store: rows of citation_networks
    papers,     \* paper store: rows of papers
    cache,      \* on-disk cache: id -> file content or NoFile
    preq,       \* the GET /api/paper/:pmid request being served
    graph,      \* the upstream link graph, where a run fixes it (SpecGraph)
    link,       \* the link-discovery call being served (SpecLinks)
    vreq,       \* the POST /api/validate-doi request being served
    p2          \* the batched fetch loop of a long visited-set (SpecBatch)

vars == <<build, req, networks, papers, cache, preq, graph, link, vreq, p2>>

NoTask == [pc |-> "none", depth |-> 0, parent |-> 0]
\* an upstream without links
NoGraph == [citing |-> [i \in Ids |-> <<>>], related |-> [i \in Ids |-> <<>>]]
IdleLink ==
    [pc |-> "idle", fn |-> "none", maxResults |-> 0,
     data |-> [shape |-> "throw", linksetdbs |-> <<>>], result |-> <<>>]
NoNetwork == [id |-> 0]
\* a validate-doi request: the doi of its body, the status and the JSON answered
NoAnswer == [valid |-> FALSE, found |-> FALSE, pmid |-> NoPmid]
NoBody == [type |-> "undefined", truthy |-> FALSE, wellformed |-> FALSE, doi |-> NoDoi]
IdleValidate ==
    [pc |-> "idle", body |-> NoBody, status |-> 0, answer |-> NoAnswer, calls |-> 0]

\* the phase 2 loop over a visited-set of any length: issued[j] counts the
\* fetchPaperXml calls for pmidArray[j]
IdleLoop ==
    [pc |-> "idle", allPmids |-> <<>>, i |-> 0, inflight |-> {},
     issued |-> [j \in 1..MaxPmids |-> 0]]

IdlePaperReq ==
    [pc |-> "idle", pmid |-> NoPmid, status |-> 0,
     before |-> NoFile, xml |-> Null, net |-> 0, after |-> NoFile,
     up |-> Null, writeOk |-> TRUE]

IdleReq ==
    [pc |-> "idle", doi |-> NoDoi, depth |-> 0,
     status |-> 0, body |-> NoNetwork,
     upstream |-> "none", rootPmid |-> NoPmid,
     calls |-> 0, writes |-> 0,
     allPmids |-> <<>>, pmidLevels |-> [i \in Ids |-> NoLevel],
     collectedEdges |-> <<>>, offered |-> [i \in Ids |-> NoLevel],
     task |-> [i \in Ids |-> NoTask],
     rest |-> [i \in Ids |-> <<>>], awaited |-> [i \in Ids |-> NoPmid],
     xmlData |-> <<>>, inflight |-> {}, i |-> 0, k |-> 0,
     nodes |-> <<>>, edges |-> <<>>, processedPmids |-> {},
     \* bookkeeping, read by no handler: passes of the visited test per id,
     \* fetchPaperXml calls per id, ids whose fetch or parse failed,
     \* which link answers for the root were empty, and the findSimilarPapers
     \* and getRelatedPapers calls per id
     marks |-> [i \in Ids |-> 0], fetches |-> [i \in Ids |-> 0],
     failed |-> {}, rootEmpty |-> {},
     citingCalls |-> [i \in Ids |-> 0], relatedCalls |-> [i \in Ids |-> 0]]


\* ------------------------------------------------- pubmedService.ts, pure
\* faulty variant of searchByDoi: idlist[0] is not guarded by the length
\* test, the caller gets an id although the upstream matched nothing
SearchByDoiUnguarded(doi, up) ==
    IF up = "error" THEN NoPmid ELSE doi

\* searchByDoi: `up` is what the upstream did: "match" (idlist holds the
\* PMID of the DOI), "nomatch" (empty idlist) or "error" (fetch/json threw).
SearchByDoi(doi, up) ==
    IF up = "match" THEN doi ELSE NoPmid

\* getCachedXml: the file content, or null when readFile throws.
GetCachedXml(c, pmid) ==
    IF c[pmid] = NoFile THEN Null ELSE c[pmid]

\* cacheXml: writeFile; a failing write is caught and logged.
CacheXml(c, pmid, xml, writeOk) ==
    IF writeOk THEN [c EXCEPT ![pmid] = xml] ELSE c

\* faulty variant of fetchPaperXml: a failing cache write reaches the catch
\* of fetchPaperXml, which returns null
FetchPaperXmlWriteThrows(c, pmid, up, writeOk) ==
    LET cachedXml == GetCachedXml(c, pmid) IN
    IF Truthy(cachedXml)
    THEN [xml |-> cachedXml, cache |-> c, net |-> 0]
    ELSE IF up = Fail \/ ~writeOk
         THEN [xml |-> Null, cache |-> c, net |-> 1]
         ELSE [xml |-> up, cache |-> CacheXml(c, pmid, up, writeOk), net |-> 1]

\* faulty variant of fetchPaperXml: a failed call leaves an empty cache file
FetchPaperXmlCachesFailure(c, pmid, up, writeOk) ==
    LET cachedXml == GetCachedXml(c, pmid) IN
    IF Truthy(cachedXml)
    THEN [xml |-> cachedXml, cache |-> c, net |-> 0]
    ELSE IF up = Fail
         THEN [xml |-> Null, cache |-> CacheXml(c, pmid, "", writeOk), net |-> 1]
         ELSE [xml |-> up, cache |-> CacheXml(c, pmid, up, writeOk), net |-> 1]

\* fetchPaperXml: `up` is the upstream outcome (Fail or the payload),
\* the result is the returned value, the cache afterwards and the number of
\* network calls issued.
FetchPaperXml(c, pmid, up, writeOk) ==
    LET cachedXml == GetCachedXml(c, pmid) IN
    IF Truthy(cachedXml)
    THEN [xml |-> cachedXml, cache |-> c, net |-> 0]
    ELSE IF up = Fail
         THEN [xml |-> Null, cache |-> c, net |-> 1]
         ELSE [xml |-> up, cache |-> CacheXml(c, pmid, up, writeOk), net |-> 1]

\* XMLParser.parsePaperXml: a record is parsed or null is returned.
ParsePaperXml(xml) ==
    IF xml = "ok" THEN "details" ELSE Null

\* getPaperDetails: fetch, then parse; null when there is no XML.
GetPaperDetails(c, pmid, up, writeOk) ==
    LET f == FetchPaperXml(c, pmid, up, writeOk) IN
    [details |-> IF Truthy(f.xml) THEN ParsePaperXml(f.xml) ELSE Null,
     cache |-> f.cache, net |-> f.net, xml |-> f.xml]

\* ------------------------------- pubmedService.ts, link discovery, pure
\* An elink response. shape: "throw" (fetch or response.json() rejected),
\* "notobject" (the body is JSON null), "nolinksetdbs" (no linksets, or
\* linksets[0] without linksetdbs), "notiterable" (linksetdbs is a number or
\* a plain object), "dbs" (linksetdbs is an array of linksetdb objects).
\* A linksetdb has a linkname and a links value: absent, a number, a string
\* (items are its characters) or an array (items are its elements).
CitedIn == "pubmed_pubmed_citedin"
Related == "pubmed_pubmed"
LinkItems == UNION {[1..n -> Linked] : n \in 0..MaxItems}
LinkSetDbs ==
    [linkname : {CitedIn, Related}, type : {"absent", "number"}, items : {<<>>}]
    \cup [linkname : {CitedIn, Related}, type : {"string", "array"},
          items : LinkItems]
Responses ==
    [shape : {"throw", "notobject", "nolinksetdbs", "notiterable"},
     linksetdbs : {<<>>}]
    \cup [shape : {"dbs"},
          linksetdbs : UNION {[1..n -> LinkSetDbs] : n \in 0..MaxDbs}]

\* a response of the documented shape: linksetdbs absent or an array of
\* linksetdbs whose links are arrays of ids
WellFormed(data) ==
    /\ data.shape \in {"nolinksetdbs", "dbs"}
    /\ \A j \in 1..Len(data.linksetdbs) : data.linksetdbs[j].type = "array"

\* links.slice(0, maxResults), on an array or on a string
Slice(items, maxResults) ==
    SubSeq(items, 1, Min(Len(items), maxResults))

\* the for-loop over linksetdbs (pubmedService.ts 115-119, 137-141): the
\* list pushed so far, and whether an expression threw
RECURSIVE PushLinks(_, _, _, _)
PushLinks(dbs, linkname, maxResults, acc) ==
    IF dbs = <<>> THEN [threw |-> FALSE, list |-> acc]
    ELSE LET db == Head(dbs)
             links == db.type /= "absent" /\ ~(db.type = "string" /\ db.items = <<>>)
         IN IF db.linkname = linkname /\ links
            THEN IF db.type = "number" THEN [threw |-> TRUE, list |-> acc]
                 ELSE PushLinks(Tail(dbs), linkname, maxResults,
                                acc \o Slice(db.items, maxResults))
            ELSE PushLinks(Tail(dbs), linkname, maxResults, acc)

\* the try block and the catch of findSimilarPapers / getRelatedPapers
LinkIds(data, linkname, maxResults) ==
    LET r == IF data.shape \in {"throw", "notobject", "notiterable"}
             THEN [threw |-> TRUE, list |-> <<>>]
             ELSE IF data.shape = "nolinksetdbs"
             THEN [threw |-> FALSE, list |-> <<>>]
             ELSE PushLinks(data.linksetdbs, linkname, maxResults, <<>>)
    IN IF r.threw THEN <<>> ELSE r.list

\* findSimilarPapers (pubmedService.ts 107-127)
FindSimilarPapers(data, maxResults) == LinkIds(data, CitedIn, maxResults)

\* getRelatedPapers (pubmedService.ts 129-149)
GetRelatedPapers(data, maxResults) == LinkIds(data, Related, maxResults)

\* ------------------------------------------------------ storage.ts, pure
\* faulty variant of getCitationNetworkByRootDoi: or(...) in place of and(...)
GetCitationNetworkByEither(rows, rootDoi, depth) ==
    {rows[j] : j \in {x \in 1..Len(rows) :
                        rows[x].rootDoi = rootDoi \/ rows[x].depth = depth}}

\* getCitationNetworkByRootDoi: the rows the select matches; the handler
\* takes the first row the database returns (no ORDER BY).
GetCitationNetworkByRootDoi(rows, rootDoi, depth) ==
    {rows[j] : j \in {x \in 1..Len(rows) :
                        rows[x].rootDoi = rootDoi /\ rows[x].depth = depth}}

\* createCitationNetwork: insert ... returning; the row gets a fresh id.
CreateCitationNetwork(rows, n) ==
    Append(rows, [n EXCEPT !.id = Len(rows) + 1])

\* getPaperByPmid: is there a row with this pmid
GetPaperByPmid(rows, pmid) ==
    \E j \in 1..Len(rows) : rows[j].pmid = pmid

\* createPaper: insert ... returning
CreatePaper(rows, pmid, r) ==
    Append(rows, [pmid |-> pmid, by |-> r])

\* ------------------------------------------------------ request handling
Respond(t, status, body) ==
    [t EXCEPT !.pc = "done", !.status = status, !.body = body]

Edge(source, target) == [source |-> source, target |-> target, type |-> "cites"]

Children(t, pmid) == {c \in Ids : t.task[c].pc /= "none" /\ t.task[c].parent = pmid}

\* ---------------------------------------- staged handler, phase 1
\* faulty variant of collectPmids: allPmids.add(pmid) is missing
CollectPmidsNoAdd(t, pmid, currentDepth, parent) ==
    IF currentDepth > t.depth \/ pmid \in Range(t.allPmids)
    THEN t
    ELSE [t EXCEPT
            !.marks[pmid] = @ + 1,
            !.pmidLevels[pmid] =
                Min(IF @ = NoLevel THEN currentDepth ELSE @, currentDepth),
            !.task[pmid] =
                [pc |-> IF currentDepth < t.depth THEN "citing" ELSE "done",
                 depth |-> currentDepth, parent |-> parent],
            !.calls = IF currentDepth < t.depth THEN @ + 1 ELSE @,
            !.citingCalls[pmid] = IF currentDepth < t.depth THEN @ + 1 ELSE @]

\* faulty variant of collectPmids: the depth test is <= in place of <
CollectPmidsExpandsLeaf(t, pmid, currentDepth, parent) ==
    IF currentDepth > t.depth \/ pmid \in Range(t.allPmids)
    THEN t
    ELSE [t EXCEPT
            !.allPmids = Append(@, pmid),
            !.marks[pmid] = @ + 1,
            !.pmidLevels[pmid] =
                Min(IF @ = NoLevel THEN currentDepth ELSE @, currentDepth),
            !.task[pmid] =
                [pc |-> "citing", depth |-> currentDepth, parent |-> parent],
            !.calls = @ + 1,
            !.citingCalls[pmid] = @ + 1]

\* collectPmids up to its first await (routes.ts 295-306).
CollectPmids(t, pmid, currentDepth, parent) ==
    IF currentDepth > t.depth \/ pmid \in Range(t.allPmids)
    THEN t
    ELSE [t EXCEPT
            !.allPmids = Append(@, pmid),
            !.marks[pmid] = @ + 1,
            !.pmidLevels[pmid] =
                Min(IF @ = NoLevel THEN currentDepth ELSE @, currentDepth),
            !.task[pmid] =
                [pc |-> IF currentDepth < t.depth THEN "citing" ELSE "done",
                 depth |-> currentDepth, parent |-> parent],
            !.calls = IF currentDepth < t.depth THEN @ + 1 ELSE @,
            !.citingCalls[pmid] = IF currentDepth < t.depth THEN @ + 1 ELSE @]

\* faulty variant of the two for-loops: source and target are exchanged
RECURSIVE CollectLoopReversed(_, _, _, _)
CollectLoopReversed(t, list, pmid, kind) ==
    IF list = <<>> THEN t
    ELSE LET n == Head(list)
             d == t.task[pmid].depth
         IN IF n \in Range(t.allPmids)
            THEN CollectLoopReversed(t, Tail(list), pmid, kind)
            ELSE CollectLoopReversed(
                   CollectPmids(
                     [t EXCEPT !.collectedEdges =
                         Append(@, IF kind = "citing" THEN Edge(pmid, n)
                                                      ELSE Edge(n, pmid))],
                     n, d + 1, pmid),
                   Tail(list), pmid, kind)

\* faulty variant of the two for-loops: the edge is pushed before the
\* visited test
RECURSIVE CollectLoopAlwaysEdge(_, _, _, _)
CollectLoopAlwaysEdge(t, list, pmid, kind) ==
    IF list = <<>> THEN t
    ELSE LET n == Head(list)
             d == t.task[pmid].depth
             u == [t EXCEPT !.collectedEdges =
                     Append(@, IF kind = "citing" THEN Edge(n, pmid)
                                                  ELSE Edge(pmid, n))]
         IN IF n \in Range(t.allPmids)
            THEN CollectLoopAlwaysEdge(u, Tail(list), pmid, kind)
            ELSE CollectLoopAlwaysEdge(CollectPmids(u, n, d + 1, pmid),
                                       Tail(list), pmid, kind)

\* the two for-loops of collectPmids (routes.ts 310-319, 326-335)
RECURSIVE CollectLoop(_, _, _, _)
CollectLoop(t, list, pmid, kind) ==
    IF list = <<>> THEN t
    ELSE LET n == Head(list)
             d == t.task[pmid].depth
         IN IF n \in Range(t.allPmids)
            THEN CollectLoop(t, Tail(list), pmid, kind)
            ELSE CollectLoop(
                   CollectPmids(
                     [t EXCEPT !.collectedEdges =
                         Append(@, IF kind = "citing" THEN Edge(n, pmid)
                                                      ELSE Edge(pmid, n))],
                     n, d + 1, pmid),
                   Tail(list), pmid, kind)

\* bookkeeping of the link responses: the least depth at which a response
\* of this traversal has named each id (the root is named at depth 0)
Reveal(t, pmid, list) ==
    [t EXCEPT !.offered =
        [n \in Ids |-> IF n \in Range(list)
                       THEN Min(IF @[n] = NoLevel THEN t.task[pmid].depth + 1 ELSE @[n],
                                t.task[pmid].depth + 1)
                       ELSE @[n]]]

\* bookkeeping of the link responses: which answers for the root were empty
Note(t, pmid, list, kind) ==
    IF pmid = t.rootPmid /\ list = <<>>
    THEN [t EXCEPT !.rootEmpty = @ \cup {kind}] ELSE t

\* ---------------------------------------- staged handler, phase 2 and 3
\* faulty variant of the slice: pmidArray.slice(i), no end index
BatchUnbounded(t) ==
    {t.allPmids[j] : j \in {x \in 1..Len(t.allPmids) : x > t.i}}

Batch(t) ==
    {t.allPmids[j] : j \in {x \in 1..Len(t.allPmids) :
                              x > t.i /\ x <= t.i + batchSize}}

\* faulty variant of the edge filter: || in place of &&
FilterEdgesEither(edges, processed) ==
    SelectSeq(edges, LAMBDA e : e.source \in processed \/ e.target \in processed)

\* edge filter, metadata and the createCitationNetwork call (416-452)
FilterEdges(edges, processed) ==
    SelectSeq(edges, LAMBDA e : e.source \in processed /\ e.target \in processed)

\* faulty variant of the metadata: the edges are counted before the filter
MetadataUnfiltered(t) ==
    [totalNodes |-> Len(t.nodes),
     totalEdges |-> IF build = "staged" THEN Len(t.collectedEdges) ELSE Len(t.edges),
     maxDepth |-> t.depth]

Metadata(t) ==
    [totalNodes |-> Len(t.nodes), totalEdges |-> Len(t.edges),
     maxDepth |-> t.depth]

FinishPhase3(t) ==
    [t EXCEPT !.edges = FilterEdges(t.collectedEdges, t.processedPmids),
              !.pc = "store"]

\* loop header of phase 3: the next entry of xmlData, or the end of the loop
P3Next(t) ==
    IF t.k + 1 > Len(t.xmlData)
    THEN FinishPhase3([t EXCEPT !.k = @ + 1])
    ELSE [t EXCEPT !.k = @ + 1, !.pc = "p3parse"]

\* faulty variant of nodes.push: level: depth (the requested depth)
PushNodeDepth(t, pmid) ==
    [t EXCEPT !.nodes = Append(@, [id |-> pmid, level |-> t.depth]),
              !.processedPmids = @ \cup {pmid}]

\* routes.ts 400-412
PushNode(t, pmid) ==
    [t EXCEPT !.nodes = Append(@, [id |-> pmid,
                                   level |-> IF t.pmidLevels[pmid] = NoLevel
                                             THEN 0 ELSE t.pmidLevels[pmid]]),
              !.processedPmids = @ \cup {pmid}]

\* faulty variant of the loop header: phase 3 skips the first entry of xmlData
NextBatchSkipsFirst(t) ==
    IF t.i < Len(t.allPmids)
    THEN [t EXCEPT !.pc = "phase2", !.inflight = Batch(t)]
    ELSE P3Next([t EXCEPT !.k = 1])

\* start of a batch, or of phase 3 when no id is left (routes.ts 353-376)
NextBatch(t) ==
    IF t.i < Len(t.allPmids)
    THEN [t EXCEPT !.pc = "phase2", !.inflight = Batch(t)]
    ELSE P3Next([t EXCEPT !.k = 0])


\* ---------------------------------------- interleaved handler
\* faulty variant of processPaper: processedPmids.add(pmid) is missing
ProcessPaperNoMark(t, pmid, currentDepth, parent) ==
    IF currentDepth > t.depth \/ pmid \in t.processedPmids
    THEN t
    ELSE [t EXCEPT
            !.marks[pmid] = @ + 1,
            !.task[pmid] = [pc |-> "details", depth |-> currentDepth,
                            parent |-> parent]]

\* processPaper up to its first await (part_000 78-91)
ProcessPaper(t, pmid, currentDepth, parent) ==
    IF currentDepth > t.depth \/ pmid \in t.processedPmids
    THEN t
    ELSE [t EXCEPT
            !.processedPmids = @ \cup {pmid},
            !.marks[pmid] = @ + 1,
            !.task[pmid] = [pc |-> "details", depth |-> currentDepth,
                            parent |-> parent]]

\* faulty variant of the two for-loops: an id that is already processed and
\* is met again nearer to the root gets the smaller level
Relevel(nodes, n, level) ==
    [j \in 1..Len(nodes) |->
        IF nodes[j].id = n /\ level < nodes[j].level
        THEN [nodes[j] EXCEPT !.level = level] ELSE nodes[j]]

RECURSIVE ProcessLoopRelevels(_, _, _, _)
ProcessLoopRelevels(t, list, pmid, kind) ==
    IF list = <<>> THEN t
    ELSE LET n == Head(list)
             d == t.task[pmid].depth
         IN IF n \in t.processedPmids
            THEN ProcessLoopRelevels([t EXCEPT !.nodes = Relevel(@, n, d + 1)],
                                     Tail(list), pmid, kind)
            ELSE ProcessLoopRelevels(
                   ProcessPaper(
                     [t EXCEPT !.edges =
                         Append(@, IF kind = "citing" THEN Edge(n, pmid)
                                                      ELSE Edge(pmid, n))],
                     n, d + 1, pmid),
                   Tail(list), pmid, kind)

\* the two for-loops of processPaper (part_000 141-153, 161-173)
RECURSIVE ProcessLoop(_, _, _, _)
ProcessLoop(t, list, pmid, kind) ==
    IF list = <<>> THEN t
    ELSE LET n == Head(list)
             d == t.task[pmid].depth
         IN IF n \in t.processedPmids
            THEN ProcessLoop(t, Tail(list), pmid, kind)
            ELSE ProcessLoop(
                   ProcessPaper(
                     [t EXCEPT !.edges =
                         Append(@, IF kind = "citing" THEN Edge(n, pmid)
                                                      ELSE Edge(pmid, n))],
                     n, d + 1, pmid),
                   Tail(list), pmid, kind)

\* faulty variant of nodes.push: level: currentDepth + 1
AddNodeOffByOne(t, pmid) ==
    LET d == t.task[pmid].depth IN
    [t EXCEPT !.nodes = Append(@, [id |-> pmid, level |-> d + 1]),
              !.task[pmid].pc = IF d < t.depth THEN "citing" ELSE "done",
              !.calls = IF d < t.depth THEN @ + 1 ELSE @,
              !.citingCalls[pmid] = IF d < t.depth THEN @ + 1 ELSE @]

\* faulty variant of the node step: the links are asked for, the node is not
\* pushed
AddNodeSkipsPush(t, pmid) ==
    LET d == t.task[pmid].depth IN
    [t EXCEPT !.task[pmid].pc = IF d < t.depth THEN "citing" ELSE "done",
              !.calls = IF d < t.depth THEN @ + 1 ELSE @,
              !.citingCalls[pmid] = IF d < t.depth THEN @ + 1 ELSE @]

\* nodes.push and the depth test that follows it (part_000 117-137)
AddNode(t, pmid) ==
    LET d == t.task[pmid].depth IN
    [t EXCEPT !.nodes = Append(@, [id |-> pmid, level |-> d]),
              !.task[pmid].pc = IF d < t.depth THEN "citing" ELSE "done",
              !.calls = IF d < t.depth THEN @ + 1 ELSE @,
              !.citingCalls[pmid] = IF d < t.depth THEN @ + 1 ELSE @]

\* faulty variant of the join: Promise.race in place of Promise.all
AnySettled(t, pmid) ==
    \/ Children(t, pmid) = {}
    \/ \E c \in Children(t, pmid) : t.task[c].pc \in {"failed", "done"}

\* Promise.all([...citingPromises, ...relatedPromises]): rejected as soon as
\* one child has rejected, fulfilled when every child has fulfilled
AllSettled(t, pmid) ==
    \/ \E c \in Children(t, pmid) : t.task[c].pc = "failed"
    \/ \A c \in Children(t, pmid) : t.task[c].pc = "done"

AllResult(t, pmid) ==
    IF \E c \in Children(t, pmid) : t.task[c].pc = "failed"
    THEN "failed" ELSE "done"

\* ---------------------------------------- sequential handler
\* the two for-loops of the sequential processPaper (routes.ts 119-128,
\* 131-141): each child is awaited before the loop goes on; after the citing
\* loop getRelatedPapers is issued, after the related loop the call returns
RECURSIVE SeqLoop(_, _, _, _)
SeqLoop(t, list, pmid, kind) ==
    IF list = <<>>
    THEN IF kind = "citing"
         THEN [t EXCEPT !.task[pmid].pc = "related", !.calls = @ + 1,
                        !.relatedCalls[pmid] = @ + 1]
         ELSE [t EXCEPT !.task[pmid].pc = "done"]
    ELSE LET n == Head(list)
             d == t.task[pmid].depth
         IN IF n \in t.processedPmids
            THEN SeqLoop(t, Tail(list), pmid, kind)
            ELSE LET u == ProcessPaper(
                            [t EXCEPT !.edges =
                                Append(@, IF kind = "citing" THEN Edge(n, pmid)
                                                             ELSE Edge(pmid, n))],
                            n, d + 1, pmid)
                 IN IF u.task[n].pc = "details"
                    THEN [u EXCEPT !.task[pmid].pc =
                                       IF kind = "citing" THEN "citingWait"
                                                          ELSE "relatedWait",
                                   !.rest[pmid] = Tail(list),
                                   !.awaited[pmid] = n]
                    ELSE SeqLoop(u, Tail(list), pmid, kind)

\* ---------------------------------------------------------------- actions
Init ==
    /\ build \in {"staged", "interleaved", "sequential"}
    /\ req = [r \in Reqs |-> IdleReq]
    /\ networks = <<>>
    /\ papers = <<>>
    /\ cache = [i \in Ids |-> NoFile]
    /\ preq = IdlePaperReq
    /\ graph = NoGraph
    /\ link = IdleLink
    /\ vreq = IdleValidate
    /\ p2 = IdleLoop

\* POST /api/generate-network arrives (routes.ts 262-273): the body holds
\* doi (or none) and depth (or none: the default applies).
Start(r, doi, d) ==
    /\ req[r].pc = "idle"
    /\ LET depth == IF d = NoDepth THEN DefaultDepth ELSE d
           t == [req[r] EXCEPT !.doi = doi, !.depth = depth]
       IN req' = [req EXCEPT ![r] =
                    IF doi = NoDoi THEN Respond(t, 400, NoNetwork)
                    ELSE [t EXCEPT !.pc = "memo"]]
    /\ UNCHANGED <<vreq, p2, graph, link, build, networks, papers, cache, preq>>

\* storage.getCitationNetworkByRootDoi returns (routes.ts 273-281)
MemoCheck(r) ==
    /\ req[r].pc = "memo"
    /\ LET m == GetCitationNetworkByRootDoi(networks, req[r].doi, req[r].depth)
       IN IF m = {}
          THEN req' = [req EXCEPT ![r].pc = "resolve", ![r].calls = @ + 1]
          ELSE \E existingNetwork \in m :
                 req' = [req EXCEPT ![r] = Respond(@, 200, existingNetwork)]
    /\ UNCHANGED <<vreq, p2, graph, link, build, networks, papers, cache, preq>>

\* pubmedService.searchByDoi returns (routes.ts 281-343)
ResolveReturn(r, up) ==
    /\ req[r].pc = "resolve"
    /\ LET rootPmid == SearchByDoi(req[r].doi, up)
           t == [req[r] EXCEPT !.upstream = up, !.rootPmid = rootPmid]
       IN req' = [req EXCEPT ![r] =
                    IF rootPmid = NoPmid THEN Respond(t, 404, NoNetwork)
                    ELSE IF build = "staged"
                    THEN CollectPmids([t EXCEPT !.pc = "phase1",
                                                !.offered[rootPmid] = 0],
                                      rootPmid, 0, 0)
                    ELSE ProcessPaper([t EXCEPT !.pc = "traverse"],
                                      rootPmid, 0, 0)]
    /\ UNCHANGED <<vreq, p2, graph, link, build, networks, papers, cache, preq>>

\* findSimilarPapers(pmid, 5) returns `list` ([] when the call failed);
\* the citing loop runs and getRelatedPapers is issued (routes.ts 306-322)
CitingReturn(r, pmid, list) ==
    /\ req[r].pc = "phase1"
    /\ req[r].task[pmid].pc = "citing"
    /\ req' = [req EXCEPT ![r] =
                 [CollectLoop(Note(Reveal(@, pmid, list), pmid, list, "citing"),
                             list, pmid, "citing")
                    EXCEPT !.task[pmid].pc = "related", !.calls = @ + 1,
                           !.relatedCalls[pmid] = @ + 1]]
    /\ UNCHANGED <<vreq, p2, graph, link, build, networks, papers, cache, preq>>

\* getRelatedPapers(pmid, 3) returns; the related loop runs and the task
\* awaits Promise.all of its children (routes.ts 322-338)
RelatedReturn(r, pmid, list) ==
    /\ req[r].pc = "phase1"
    /\ req[r].task[pmid].pc = "related"
    /\ req' = [req EXCEPT ![r] =
                 [CollectLoop(Note(Reveal(@, pmid, list), pmid, list, "related"),
                             list, pmid, "related")
                    EXCEPT !.task[pmid].pc = "join"]]
    /\ UNCHANGED <<vreq, p2, graph, link, build, networks, papers, cache, preq>>

\* Promise.all of the children resolves: the call of collectPmids returns
Join(r, pmid) ==
    /\ req[r].pc = "phase1"
    /\ req[r].task[pmid].pc = "join"
    /\ \A c \in Children(req[r], pmid) : req[r].task[c].pc = "done"
    /\ req' = [req EXCEPT ![r].task[pmid].pc = "done"]
    /\ UNCHANGED <<vreq, p2, graph, link, build, networks, papers, cache, preq>>

\* faulty variant of the phase change: collectPmids(rootPmid, 0) is not
\* awaited
Phase1DoneEarly(r) ==
    /\ req[r].pc = "phase1"
    /\ req' = [req EXCEPT ![r] = NextBatch([@ EXCEPT !.i = 0])]
    /\ UNCHANGED <<vreq, p2, graph, link, build, networks, papers, cache, preq>>

\* await collectPmids(rootPmid, 0) resumes: phase 2 starts (routes.ts 343-356)
Phase1Done(r) ==
    /\ req[r].pc = "phase1"
    /\ req[r].task[req[r].rootPmid].pc = "done"
    /\ req' = [req EXCEPT ![r] = NextBatch([@ EXCEPT !.i = 0])]
    /\ UNCHANGED <<vreq, p2, graph, link, build, networks, papers, cache, preq>>

\* fetchPaperXml(pmid) of the running batch returns (routes.ts 356-365)
FetchReturn(r, pmid, up, writeOk) ==
    /\ req[r].pc = "phase2"
    /\ pmid \in req[r].inflight
    /\ LET f == FetchPaperXml(cache, pmid, up, writeOk)
           t == [req[r] EXCEPT
                   !.xmlData = IF Truthy(f.xml) THEN Append(@, <<pmid, f.xml>>) ELSE @,
                   !.inflight = @ \ {pmid},
                   !.calls = @ + f.net,
                   !.fetches[pmid] = @ + 1,
                   !.failed = IF Truthy(f.xml) THEN @ ELSE @ \cup {pmid}]
       IN /\ cache' = f.cache
          /\ req' = [req EXCEPT ![r] =
                       IF t.inflight = {}
                       THEN NextBatch([t EXCEPT !.i = @ + batchSize])
                       ELSE t]
    /\ UNCHANGED <<vreq, p2, graph, link, build, networks, papers, preq>>

\* xmlParser.parsePaperXml(xml) returns (routes.ts 376-383)
ParseReturn(r) ==
    /\ req[r].pc = "p3parse"
    /\ LET paperDetails == ParsePaperXml(req[r].xmlData[req[r].k][2])
       IN req' = [req EXCEPT ![r] =
                    IF ~Truthy(paperDetails)
                    THEN P3Next([@ EXCEPT !.failed =
                                    @ \cup {req[r].xmlData[req[r].k][1]}])
                    ELSE [@ EXCEPT !.pc = "p3get"]]
    /\ UNCHANGED <<vreq, p2, graph, link, build, networks, papers, cache, preq>>

\* storage.getPaperByPmid(pmid) returns (routes.ts 383-385, 400-412)
GetPaperReturn(r) ==
    /\ req[r].pc = "p3get"
    /\ LET pmid == req[r].xmlData[req[r].k][1]
       IN req' = [req EXCEPT ![r] =
                    IF GetPaperByPmid(papers, pmid) THEN P3Next(PushNode(@, pmid))
                    ELSE [@ EXCEPT !.pc = "p3create"]]
    /\ UNCHANGED <<vreq, p2, graph, link, build, networks, papers, cache, preq>>

\* storage.createPaper returns, or throws on the unique pmid (schema.ts 8)
CreatePaperReturn(r) ==
    /\ req[r].pc = "p3create"
    /\ LET pmid == req[r].xmlData[req[r].k][1]
       IN IF GetPaperByPmid(papers, pmid)
          THEN /\ req' = [req EXCEPT ![r] = Respond(@, 500, NoNetwork)]
               /\ papers' = papers
          ELSE /\ papers' = CreatePaper(papers, pmid, r)
               /\ req' = [req EXCEPT ![r] =
                            P3Next(PushNode([@ EXCEPT !.writes = @ + 1], pmid))]
    /\ UNCHANGED <<vreq, p2, graph, link, build, networks, cache, preq>>

\* storage.createCitationNetwork returns; res.json(network) (446-456)
StoreReturn(r) ==
    /\ req[r].pc = "store"
    /\ LET t == req[r]
           rows == CreateCitationNetwork(networks,
                     [id |-> 0, rootDoi |-> t.doi, depth |-> t.depth,
                      nodes |-> t.nodes, edges |-> t.edges,
                      metadata |-> Metadata(t)])
       IN /\ networks' = rows
          /\ req' = [req EXCEPT ![r] =
                       Respond([t EXCEPT !.writes = @ + 1], 200, rows[Len(rows)])]
    /\ UNCHANGED <<vreq, p2, graph, link, build, papers, cache, preq>>

\* ---- interleaved handler (part_000); the sequential handler (routes.ts
\* 45-167) has the same processPaper up to nodes.push
\* faulty variant of the getPaperDetails step: a missing record rejects the
\* call of processPaper (throw in place of return)
DetailsReturnThrows(r, pmid, up, writeOk) ==
    /\ build \in {"interleaved", "sequential"}
    /\ req[r].task[pmid].pc = "details"
    /\ LET g == GetPaperDetails(cache, pmid, up, writeOk)
       IN /\ cache' = g.cache
          /\ req' = [req EXCEPT ![r].calls = @ + g.net,
                                ![r].fetches[pmid] = @ + 1,
                                ![r].failed = IF Truthy(g.details) THEN @
                                              ELSE @ \cup {pmid},
                                ![r].task[pmid].pc =
                                    IF ~Truthy(g.details) THEN "failed" ELSE "getPaper"]
    /\ UNCHANGED <<vreq, p2, graph, link, build, networks, papers, preq>>

\* faulty variant of the getPaperDetails step: an id whose record is missing
\* is taken out of processedPmids again
DetailsReturnUnmarks(r, pmid, up, writeOk) ==
    /\ build \in {"interleaved", "sequential"}
    /\ req[r].task[pmid].pc = "details"
    /\ LET g == GetPaperDetails(cache, pmid, up, writeOk)
       IN /\ cache' = g.cache
          /\ req' = [req EXCEPT ![r].calls = @ + g.net,
                                ![r].fetches[pmid] = @ + 1,
                                ![r].failed = IF Truthy(g.details) THEN @
                                              ELSE @ \cup {pmid},
                                ![r].processedPmids =
                                    IF Truthy(g.details) THEN @ ELSE @ \ {pmid},
                                ![r].task[pmid].pc =
                                    IF ~Truthy(g.details) THEN "done" ELSE "getPaper"]
    /\ UNCHANGED <<vreq, p2, graph, link, build, networks, papers, preq>>

\* faulty variant of getPaperDetails returning: an id without details is
\* expanded all the same
DetailsReturnExpandsFailed(r, pmid, up, writeOk) ==
    /\ build \in {"interleaved", "sequential"}
    /\ req[r].task[pmid].pc = "details"
    /\ LET g == GetPaperDetails(cache, pmid, up, writeOk)
           below == req[r].task[pmid].depth < req[r].depth
       IN /\ cache' = g.cache
          /\ req' = [req EXCEPT ![r].calls = @ + g.net
                                    + (IF ~Truthy(g.details) /\ below THEN 1 ELSE 0),
                                ![r].fetches[pmid] = @ + 1,
                                ![r].failed = IF Truthy(g.details) THEN @
                                              ELSE @ \cup {pmid},
                                ![r].citingCalls[pmid] =
                                    IF ~Truthy(g.details) /\ below THEN @ + 1 ELSE @,
                                ![r].task[pmid].pc =
                                    IF Truthy(g.details) THEN "getPaper"
                                    ELSE IF below THEN "citing" ELSE "done"]
    /\ UNCHANGED <<vreq, p2, graph, link, build, networks, papers, preq>>

\* pubmedService.getPaperDetails(pmid) returns (part_000 91-100)
DetailsReturn(r, pmid, up, writeOk) ==
    /\ build \in {"interleaved", "sequential"}
    /\ req[r].task[pmid].pc = "details"
    /\ LET g == GetPaperDetails(cache, pmid, up, writeOk)
       IN /\ cache' = g.cache
          /\ req' = [req EXCEPT ![r].calls = @ + g.net,
                                ![r].fetches[pmid] = @ + 1,
                                ![r].failed = IF Truthy(g.details) THEN @
                                              ELSE @ \cup {pmid},
                                ![r].task[pmid].pc =
                                    IF ~Truthy(g.details) THEN "done" ELSE "getPaper"]
    /\ UNCHANGED <<vreq, p2, graph, link, build, networks, papers, preq>>

\* storage.getPaperByPmid(pmid) returns (part_000 100-137)
TaskGetPaperReturn(r, pmid) ==
    /\ build \in {"interleaved", "sequential"}
    /\ req[r].task[pmid].pc = "getPaper"
    /\ req' = [req EXCEPT ![r] =
                 IF GetPaperByPmid(papers, pmid) THEN AddNode(@, pmid)
                 ELSE [@ EXCEPT !.task[pmid].pc = "createPaper"]]
    /\ UNCHANGED <<vreq, p2, graph, link, build, networks, papers, cache, preq>>

\* storage.createPaper returns, or throws on the unique pmid (part_000 102-137)
TaskCreatePaperReturn(r, pmid) ==
    /\ build \in {"interleaved", "sequential"}
    /\ req[r].task[pmid].pc = "createPaper"
    /\ IF GetPaperByPmid(papers, pmid)
       THEN /\ req' = [req EXCEPT ![r].task[pmid].pc = "failed"]
            /\ papers' = papers
       ELSE /\ papers' = CreatePaper(papers, pmid, r)
            /\ req' = [req EXCEPT ![r] = AddNode([@ EXCEPT !.writes = @ + 1], pmid)]
    /\ UNCHANGED <<vreq, p2, graph, link, build, networks, cache, preq>>

\* findSimilarPapers(pmid, 5) returns (part_000 137-157)
TaskCitingReturn(r, pmid, list) ==
    /\ build = "interleaved"
    /\ req[r].task[pmid].pc = "citing"
    /\ req' = [req EXCEPT ![r] =
                 [ProcessLoop(Note(Reveal(@, pmid, list), pmid, list, "citing"), list, pmid, "citing")
                    EXCEPT !.task[pmid].pc = "related", !.calls = @ + 1,
                           !.relatedCalls[pmid] = @ + 1]]
    /\ UNCHANGED <<vreq, p2, graph, link, build, networks, papers, cache, preq>>

\* getRelatedPapers(pmid, 3) returns (part_000 157-177)
TaskRelatedReturn(r, pmid, list) ==
    /\ build = "interleaved"
    /\ req[r].task[pmid].pc = "related"
    /\ req' = [req EXCEPT ![r] =
                 [ProcessLoop(Note(Reveal(@, pmid, list), pmid, list, "related"), list, pmid, "related")
                    EXCEPT !.task[pmid].pc = "join"]]
    /\ UNCHANGED <<vreq, p2, graph, link, build, networks, papers, cache, preq>>

\* await Promise.all(...) resumes or throws (part_000 177-182)
TaskJoin(r, pmid) ==
    /\ build = "interleaved"
    /\ req[r].task[pmid].pc = "join"
    /\ AllSettled(req[r], pmid)
    /\ req' = [req EXCEPT ![r].task[pmid].pc = AllResult(req[r], pmid)]
    /\ UNCHANGED <<vreq, p2, graph, link, build, networks, papers, cache, preq>>

\* ---- sequential handler (routes.ts 45-167)
\* findSimilarPapers(pmid, 5) returns; the citing loop runs up to its first
\* await (routes.ts 117-128)
SeqCitingReturn(r, pmid, list) ==
    /\ build = "sequential"
    /\ req[r].task[pmid].pc = "citing"
    /\ req' = [req EXCEPT ![r] = SeqLoop(Note(Reveal(@, pmid, list), pmid, list, "citing"), list, pmid, "citing")]
    /\ UNCHANGED <<vreq, p2, graph, link, build, networks, papers, cache, preq>>

\* getRelatedPapers(pmid, 3) returns; the related loop runs up to its first
\* await (routes.ts 130-141)
SeqRelatedReturn(r, pmid, list) ==
    /\ build = "sequential"
    /\ req[r].task[pmid].pc = "related"
    /\ req' = [req EXCEPT ![r] = SeqLoop(Note(Reveal(@, pmid, list), pmid, list, "related"), list, pmid, "related")]
    /\ UNCHANGED <<vreq, p2, graph, link, build, networks, papers, cache, preq>>

\* await processPaper(child, currentDepth + 1) resumes and the loop goes on,
\* or it throws and the call rejects (routes.ts 126, 139)
SeqResume(r, pmid) ==
    /\ build = "sequential"
    /\ req[r].task[pmid].pc \in {"citingWait", "relatedWait"}
    /\ LET t == req[r]
           c == t.awaited[pmid]
           kind == IF t.task[pmid].pc = "citingWait" THEN "citing" ELSE "related"
       IN /\ t.task[c].pc \in {"done", "failed"}
          /\ req' = [req EXCEPT ![r] =
                       IF t.task[c].pc = "failed"
                       THEN [t EXCEPT !.task[pmid].pc = "failed"]
                       ELSE SeqLoop([t EXCEPT !.rest[pmid] = <<>>,
                                              !.awaited[pmid] = NoPmid],
                                    t.rest[pmid], pmid, kind)]
    /\ UNCHANGED <<vreq, p2, graph, link, build, networks, papers, cache, preq>>

\* faulty variant of the end of the traversal: a traversal that pushed no
\* node is left without an answer
TraverseDoneSilent(r) ==
    /\ req[r].pc = "traverse"
    /\ req[r].task[req[r].rootPmid].pc \in {"done", "failed"}
    /\ req[r].nodes /= <<>>
    /\ req' = [req EXCEPT ![r] =
                 IF @.task[@.rootPmid].pc = "failed" THEN Respond(@, 500, NoNetwork)
                 ELSE [@ EXCEPT !.pc = "store"]]
    /\ UNCHANGED <<vreq, p2, graph, link, build, networks, papers, cache, preq>>

\* faulty variant of the end of the traversal: a network without nodes is
\* answered 404 and not stored
TraverseDoneNeedsRoot(r) ==
    /\ req[r].pc = "traverse"
    /\ req[r].task[req[r].rootPmid].pc \in {"done", "failed"}
    /\ req' = [req EXCEPT ![r] =
                 IF @.task[@.rootPmid].pc = "failed" THEN Respond(@, 500, NoNetwork)
                 ELSE IF @.nodes = <<>> THEN Respond(@, 404, NoNetwork)
                 ELSE [@ EXCEPT !.pc = "store"]]
    /\ UNCHANGED <<vreq, p2, graph, link, build, networks, papers, cache, preq>>

\* await processPaper(rootPmid, 0) resumes: metadata and the
\* createCitationNetwork call; or it throws: the catch answers 500
\* (part_000 185-231)
TraverseDone(r) ==
    /\ req[r].pc = "traverse"
    /\ req[r].task[req[r].rootPmid].pc \in {"done", "failed"}
    /\ req' = [req EXCEPT ![r] =
                 IF @.task[@.rootPmid].pc = "failed" THEN Respond(@, 500, NoNetwork)
                 ELSE [@ EXCEPT !.pc = "store"]]
    /\ UNCHANGED <<vreq, p2, graph, link, build, networks, papers, cache, preq>>

Step(r) ==
    \/ \E doi \in Dois \cup {NoDoi}, d \in Depths \cup {NoDepth} : Start(r, doi, d)
    \/ MemoCheck(r)
    \/ \E up \in {"match", "nomatch", "error"} : ResolveReturn(r, up)
    \/ \E pmid \in Ids, list \in LinkLists : CitingReturn(r, pmid, list)
    \/ \E pmid \in Ids, list \in LinkLists : RelatedReturn(r, pmid, list)
    \/ \E pmid \in Ids : Join(r, pmid)
    \/ Phase1Done(r)
    \/ \E pmid \in Ids, up \in Xml \cup {Fail}, writeOk \in BOOLEAN :
          FetchReturn(r, pmid, up, writeOk)
    \/ ParseReturn(r)
    \/ GetPaperReturn(r)
    \/ CreatePaperReturn(r)
    \/ StoreReturn(r)
    \/ \E pmid \in Ids, up \in Xml \cup {Fail}, writeOk \in BOOLEAN :
          DetailsReturn(r, pmid, up, writeOk)
    \/ \E pmid \in Ids : TaskGetPaperReturn(r, pmid)
    \/ \E pmid \in Ids : TaskCreatePaperReturn(r, pmid)
    \/ \E pmid \in Ids, list \in LinkLists : TaskCitingReturn(r, pmid, list)
    \/ \E pmid \in Ids, list \in LinkLists : TaskRelatedReturn(r, pmid, list)
    \/ \E pmid \in Ids : TaskJoin(r, pmid)
    \/ \E pmid \in Ids, list \in LinkLists : SeqCitingReturn(r, pmid, list)
    \/ \E pmid \in Ids, list \in LinkLists : SeqRelatedReturn(r, pmid, list)
    \/ \E pmid \in Ids : SeqResume(r, pmid)
    \/ TraverseDone(r)

Next == Step(1)

\* one generate-network request against a fresh database and an empty cache
Spec == Init /\ [][Next]_vars

\* the same request when every call it waits for returns: a step of the
\* request that stays possible is taken
SpecLive == Init /\ [][Next]_vars /\ WF_vars(Next)

\* ---- GET /api/paper/:pmid (routes.ts 464-494)
PaperStart(pmid) ==
    /\ preq.pc \in {"idle", "done"}
    /\ preq' = [IdlePaperReq EXCEPT !.pc = "get", !.pmid = pmid]
    /\ UNCHANGED <<vreq, p2, graph, link, build, req, networks, papers, cache>>

\* storage.getPaperByPmid(pmid) returns (routes.ts 468-470, 489)
PaperGetReturn ==
    /\ preq.pc = "get"
    /\ preq' = IF GetPaperByPmid(papers, preq.pmid)
               THEN [preq EXCEPT !.pc = "done", !.status = 200]
               ELSE [preq EXCEPT !.pc = "details"]
    /\ UNCHANGED <<vreq, p2, graph, link, build, req, networks, papers, cache>>

\* pubmedService.getPaperDetails(pmid) returns (routes.ts 470-475)
PaperDetailsReturn(up, writeOk) ==
    /\ preq.pc = "details"
    /\ LET g == GetPaperDetails(cache, preq.pmid, up, writeOk)
           p == [preq EXCEPT !.before = cache[preq.pmid], !.xml = g.xml,
                             !.net = g.net, !.after = g.cache[preq.pmid],
                             !.up = up, !.writeOk = writeOk]
       IN /\ cache' = g.cache
          /\ preq' = IF ~Truthy(g.details)
                     THEN [p EXCEPT !.pc = "done", !.status = 404]
                     ELSE [p EXCEPT !.pc = "create"]
    /\ UNCHANGED <<vreq, p2, graph, link, build, req, networks, papers>>

\* storage.createPaper returns or throws (routes.ts 475-492)
PaperCreateReturn ==
    /\ preq.pc = "create"
    /\ IF GetPaperByPmid(papers, preq.pmid)
       THEN /\ preq' = [preq EXCEPT !.pc = "done", !.status = 500]
            /\ papers' = papers
       ELSE /\ papers' = CreatePaper(papers, preq.pmid, 0)
            /\ preq' = [preq EXCEPT !.pc = "done", !.status = 200]
    /\ UNCHANGED <<vreq, p2, graph, link, build, req, networks, cache>>

NextFetch ==
    \/ \E pmid \in Ids : PaperStart(pmid)
    \/ PaperGetReturn
    \/ \E up \in Xml \cup {Fail}, writeOk \in BOOLEAN : PaperDetailsReturn(up, writeOk)
    \/ PaperCreateReturn

\* GET /api/paper requests, one after the other
SpecFetch == Init /\ [][NextFetch]_vars

\* ---- overlapping generate-network requests against a database that may
\* already hold a network
StoredNetworks ==
    {[id |-> 1, rootDoi |-> doi, depth |-> depth,
      nodes |-> <<[id |-> doi, level |-> 0]>>, edges |-> <<>>,
      metadata |-> [totalNodes |-> 1, totalEdges |-> 0, maxDepth |-> depth]] :
        doi \in Dois, depth \in Depths}

InitStore ==
    /\ build \in {"staged", "interleaved", "sequential"}
    /\ req = [r \in Reqs |-> IdleReq]
    /\ networks \in {<<>>} \cup {<<n>> : n \in StoredNetworks}
    /\ papers = <<>>
    /\ cache = [i \in Ids |-> NoFile]
    /\ preq = IdlePaperReq
    /\ graph = NoGraph
    /\ link = IdleLink
    /\ vreq = IdleValidate
    /\ p2 = IdleLoop

\* requests of depth 0: the traversal is the root alone; the cache directory
\* is writable
StoreStep(r) ==
    \/ \E doi \in Dois \cup {NoDoi} : Start(r, doi, 0)
    \/ MemoCheck(r)
    \/ \E up \in {"match", "nomatch", "error"} : ResolveReturn(r, up)
    \/ Phase1Done(r)
    \/ \E pmid \in Ids, up \in Xml \cup {Fail}, writeOk \in {TRUE} :
          FetchReturn(r, pmid, up, writeOk)
    \/ ParseReturn(r)
    \/ GetPaperReturn(r)
    \/ CreatePaperReturn(r)
    \/ StoreReturn(r)
    \/ \E pmid \in Ids, up \in Xml \cup {Fail}, writeOk \in {TRUE} :
          DetailsReturn(r, pmid, up, writeOk)
    \/ \E pmid \in Ids : TaskGetPaperReturn(r, pmid)
    \/ \E pmid \in Ids : TaskCreatePaperReturn(r, pmid)
    \/ TraverseDone(r)

NextStore == \E r \in Reqs : StoreStep(r)

SpecStore == InitStore /\ [][NextStore]_vars

\* ---- overlapping generate-network requests, followed by later ones: a
\* handler that has answered serves the next request
Release(r) ==
    /\ req[r].pc = "done"
    /\ req' = [req EXCEPT ![r] = IdleReq]
    /\ UNCHANGED <<vreq, p2, graph, link, build, networks, papers, cache, preq>>

NextMemo ==
    \/ \E r \in Reqs : StoreStep(r)
    \/ \E r \in Reqs : Release(r)

SpecMemo == InitStore /\ [][NextMemo]_vars

\* ---- two staged phase 1 runs, one after the other, of the same request
\* against an upstream whose link answers are fixed: findSimilarPapers(i, 5)
\* answers graph.citing[i] and getRelatedPapers(i, 3) answers graph.related[i]
\* in both runs, and no call fails. Every answer names at most one id, never
\* the id asked about, and the graph has at most MaxGraphLinks links.
GraphLists(i) == {<<>>} \cup {<<j>> : j \in Ids \ {i}}
GraphAnswers ==
    {f \in [Ids -> UNION {GraphLists(i) : i \in Ids}] :
        \A i \in Ids : f[i] \in GraphLists(i)}
RECURSIVE Sum(_, _)
Sum(f, S) ==
    IF S = {} THEN 0
    ELSE LET x == CHOOSE y \in S : TRUE IN f[x] + Sum(f, S \ {x})
NumLinks(g) ==
    Sum([i \in Ids |-> Len(g.citing[i]) + Len(g.related[i])], Ids)
Graphs ==
    {g \in [citing : GraphAnswers, related : GraphAnswers] :
        NumLinks(g) <= MaxGraphLinks}

InitGraph ==
    /\ build = "staged"
    /\ req = [r \in Reqs |-> IdleReq]
    /\ networks = <<>>
    /\ papers = <<>>
    /\ cache = [i \in Ids |-> NoFile]
    /\ preq = IdlePaperReq
    /\ graph \in Graphs
    /\ link = IdleLink
    /\ vreq = IdleValidate
    /\ p2 = IdleLoop

GraphStep(r) ==
    \/ MemoCheck(r)
    \/ ResolveReturn(r, "match")
    \/ \E pmid \in Ids : CitingReturn(r, pmid, graph.citing[pmid])
    \/ \E pmid \in Ids : RelatedReturn(r, pmid, graph.related[pmid])
    \/ \E pmid \in Ids : Join(r, pmid)
    \/ Phase1Done(r)

NextGraph ==
    \/ \E doi \in Dois, d \in Depths : Start(1, doi, d)
    \/ req[1].pc = "phase2" /\ Start(2, req[1].doi, req[1].depth)
    \/ \E r \in {1, 2} : GraphStep(r)

SpecGraph == InitGraph /\ [][NextGraph]_vars

\* ---- link-discovery calls, one after the other, against an upstream that
\* may answer anything (pubmedService.ts 107-149)
LinkCall(fn, maxResults) ==
    /\ link.pc \in {"idle", "done"}
    /\ link' = [IdleLink EXCEPT !.pc = "await", !.fn = fn,
                                !.maxResults = maxResults]
    /\ UNCHANGED <<vreq, p2, build, req, networks, papers, cache, preq, graph>>

\* fetch(linkUrl) and response.json() settle; the function returns
LinkReturn(data) ==
    /\ link.pc = "await"
    /\ link' = [link EXCEPT
                  !.pc = "done", !.data = data,
                  !.result = IF link.fn = "findSimilarPapers"
                             THEN FindSimilarPapers(data, link.maxResults)
                             ELSE GetRelatedPapers(data, link.maxResults)]
    /\ UNCHANGED <<vreq, p2, build, req, networks, papers, cache, preq, graph>>

NextLinks ==
    \/ \E fn \in {"findSimilarPapers", "getRelatedPapers"},
          maxResults \in 1..MaxResults : LinkCall(fn, maxResults)
    \/ \E data \in Responses : LinkReturn(data)

SpecLinks == Init /\ [][NextLinks]_vars

\* ---- POST /api/validate-doi (routes.ts 232-259)
\* the values the doi of a body can have: none, a falsy or truthy value that
\* is no string, the empty string, a string the DOI pattern rejects, a DOI
ValidateBodies ==
    {[type |-> ty, truthy |-> tr, wellformed |-> FALSE, doi |-> NoDoi] :
        ty \in {"number", "boolean"}, tr \in BOOLEAN}
    \cup {[type |-> "undefined", truthy |-> FALSE, wellformed |-> FALSE, doi |-> NoDoi],
          [type |-> "object", truthy |-> TRUE, wellformed |-> FALSE, doi |-> NoDoi],
          [type |-> "string", truthy |-> FALSE, wellformed |-> FALSE, doi |-> NoDoi],
          [type |-> "string", truthy |-> TRUE, wellformed |-> FALSE, doi |-> NoDoi]}
    \cup {[type |-> "string", truthy |-> TRUE, wellformed |-> TRUE, doi |-> d] :
            d \in Dois}

\* faulty variant of the request arriving: the guard is missing
ValidateStartUnguarded(body) ==
    /\ vreq.pc \in {"idle", "done"}
    /\ vreq' = IF body.wellformed
               THEN [IdleValidate EXCEPT !.pc = "search", !.body = body, !.calls = 1]
               ELSE [IdleValidate EXCEPT !.pc = "done", !.body = body, !.status = 200]
    /\ UNCHANGED <<p2, graph, link, build, req, networks, papers, cache, preq>>

\* the request arrives: the guard, the pattern test and the call of
\* searchByDoi (routes.ts 234-246, 254)
ValidateStart(body) ==
    /\ vreq.pc \in {"idle", "done"}
    /\ vreq' = IF ~body.truthy \/ body.type /= "string"
               THEN [IdleValidate EXCEPT !.pc = "done", !.body = body, !.status = 400]
               ELSE IF body.wellformed
               THEN [IdleValidate EXCEPT !.pc = "search", !.body = body, !.calls = 1]
               ELSE [IdleValidate EXCEPT !.pc = "done", !.body = body, !.status = 200]
    /\ UNCHANGED <<p2, graph, link, build, req, networks, papers, cache, preq>>

\* searchByDoi returns (routes.ts 246-251)
ValidateReturn(up) ==
    /\ vreq.pc = "search"
    /\ LET pmid == SearchByDoi(vreq.body.doi, up)
       IN vreq' = [vreq EXCEPT !.pc = "done", !.status = 200,
                     !.answer = [valid |-> TRUE, found |-> pmid /= NoPmid,
                                 pmid |-> pmid]]
    /\ UNCHANGED <<p2, graph, link, build, req, networks, papers, cache, preq>>

\* validate-doi requests, one after the other, next to a generate-network
\* request up to the start of its traversal
NextGuards ==
    \/ \E body \in ValidateBodies : ValidateStart(body)
    \/ \E up \in {"match", "nomatch", "error"} : ValidateReturn(up)
    \/ \E doi \in Dois \cup {NoDoi}, d \in Depths \cup {NoDepth} : Start(1, doi, d)
    \/ MemoCheck(1)
    \/ \E up \in {"match", "nomatch", "error"} : ResolveReturn(1, up)

SpecGuards == Init /\ [][NextGuards]_vars

\* ---- phase 2 of the staged handler over a visited-set of n ids
\* (routes.ts 348-365): pmidArray is <<1, ..., n>>
\* the for-loop test and the launch of the next batch (routes.ts 354-358)
LaunchBatch(t) ==
    IF t.i < Len(t.allPmids)
    THEN [t EXCEPT !.pc = "phase2", !.inflight = Batch(t),
                   !.issued = [j \in 1..MaxPmids |->
                                 IF j \in Batch(t) THEN @[j] + 1 ELSE @[j]]]
    ELSE [t EXCEPT !.pc = "phase3"]

\* phase 1 has ended with n ids in allPmids
LoopStart(n) ==
    /\ p2.pc = "idle"
    /\ p2' = LaunchBatch([IdleLoop EXCEPT !.allPmids = [j \in 1..n |-> j]])
    /\ UNCHANGED <<vreq, graph, link, build, req, networks, papers, cache, preq>>

\* a fetchPaperXml of the running batch returns; the last one resumes
\* await Promise.all(batchPromises) (routes.ts 356-365)
LoopFetchReturn(pmid) ==
    /\ p2.pc = "phase2"
    /\ pmid \in p2.inflight
    /\ LET t == [p2 EXCEPT !.inflight = @ \ {pmid}]
       IN p2' = IF t.inflight = {}
                THEN LaunchBatch([t EXCEPT !.i = @ + batchSize])
                ELSE t
    /\ UNCHANGED <<vreq, graph, link, build, req, networks, papers, cache, preq>>

NextBatchLoop ==
    \/ \E n \in 0..MaxPmids : LoopStart(n)
    \/ \E pmid \in 1..MaxPmids : LoopFetchReturn(pmid)

SpecBatch == Init /\ [][NextBatchLoop]_vars

\* ---- a generate-network request of depth 1 next to GET /api/paper requests,
\* against a fresh database; the upstream answers every metadata call with a
\* good record or fails, and the cache directory is writable
\* the link answers of the run: nothing, one id, two ids
RaceLists == {<<>>, <<2>>, <<2, 3>>}

RaceStep(r) ==
    \/ \E doi \in Dois : Start(r, doi, 1)
    \/ MemoCheck(r)
    \/ ResolveReturn(r, "match")
    \/ \E pmid \in Ids, list \in RaceLists : CitingReturn(r, pmid, list)
    \/ \E pmid \in Ids, list \in RaceLists : RelatedReturn(r, pmid, list)
    \/ \E pmid \in Ids : Join(r, pmid)
    \/ Phase1Done(r)
    \/ \E pmid \in Ids, up \in {"ok", Fail} : FetchReturn(r, pmid, up, TRUE)
    \/ ParseReturn(r)
    \/ GetPaperReturn(r)
    \/ CreatePaperReturn(r)
    \/ StoreReturn(r)
    \/ \E pmid \in Ids, up \in {"ok", Fail} : DetailsReturn(r, pmid, up, TRUE)
    \/ \E pmid \in Ids : TaskGetPaperReturn(r, pmid)
    \/ \E pmid \in Ids : TaskCreatePaperReturn(r, pmid)
    \/ \E pmid \in Ids, list \in RaceLists : TaskCitingReturn(r, pmid, list)
    \/ \E pmid \in Ids, list \in RaceLists : TaskRelatedReturn(r, pmid, list)
    \/ \E pmid \in Ids : TaskJoin(r, pmid)
    \/ \E pmid \in Ids, list \in RaceLists : SeqCitingReturn(r, pmid, list)
    \/ \E pmid \in Ids, list \in RaceLists : SeqRelatedReturn(r, pmid, list)
    \/ \E pmid \in Ids : SeqResume(r, pmid)
    \/ TraverseDone(r)

NextRace ==
    \/ RaceStep(1)
    \/ \E pmid \in Linked : PaperStart(pmid)
    \/ PaperGetReturn
    \/ PaperDetailsReturn("ok", TRUE)
    \/ PaperCreateReturn

SpecRace == Init /\ [][NextRace]_vars

\* ------------------------------------------------------------------ claims
NodeIds(nodes) == {nodes[j].id : j \in 1..Len(nodes)}

\* C1: no two entries of the node list of a produced network have the same
\* id, in the node list under construction and in every stored network.
NoDuplicateIds(nodes) ==
    \A a, b \in 1..Len(nodes) : a /= b => nodes[a].id /= nodes[b].id

C1_NoDuplicateNodeIds ==
    /\ \A r \in Reqs : NoDuplicateIds(req[r].nodes)
    /\ \A j \in 1..Len(networks) : NoDuplicateIds(networks[j].nodes)

\* a stored network with three nodes, one of them named by link lists at two
\* depths (the second naming was dropped by the visited test)
C1_Witness ==
    /\ build = "staged"
    /\ \E r \in Reqs :
          /\ req[r].pc = "done" /\ req[r].status = 200
          /\ Len(req[r].body.nodes) >= 3
          /\ \E pmid \in Ids : req[r].offered[pmid] /= NoLevel
                                /\ req[r].offered[pmid] < req[r].pmidLevels[pmid]

\* C2: every node of a produced network has 0 <= level <= the requested depth.
C2_LevelWithinDepth ==
    /\ \A r \in Reqs : \A j \in 1..Len(req[r].nodes) :
          req[r].nodes[j].level \in 0..req[r].depth
    /\ \A j \in 1..Len(networks) : \A a \in 1..Len(networks[j].nodes) :
          networks[j].nodes[a].level \in 0..networks[j].depth

\* a stored network of depth 2 with a node on the deepest level
C2_Witness ==
    \E j \in 1..Len(networks) :
        /\ networks[j].depth = 2
        /\ \E a \in 1..Len(networks[j].nodes) : networks[j].nodes[a].level = 2

\* C3 (as claimed): in the staged handler, once phase 1 has finished, the
\* level recorded for every visited id is the minimum depth over all link
\* paths to it. The shortest chain to an id is no longer than the least
\* depth at which a link response named it, so the level has to equal that.
C3_LevelIsMinimum ==
    \A r \in Reqs :
        (build = "staged" /\ req[r].pc \in {"phase2", "p3parse", "p3get",
                                            "p3create", "store", "done"})
        => \A pmid \in Range(req[r].allPmids) :
              req[r].pmidLevels[pmid] = req[r].offered[pmid]

Endpoints(edges) ==
    {edges[j].source : j \in 1..Len(edges)} \cup {edges[j].target : j \in 1..Len(edges)}

EdgesClosed(n) == Endpoints(n.edges) \subseteq NodeIds(n.nodes)

\* C4: staged handler: every edge of a stored network has its source and its
\* target in the stored node list.
C4_StagedEdgesClosed ==
    build = "staged" => \A j \in 1..Len(networks) : EdgesClosed(networks[j])

\* a stored network that kept an edge while the filter dropped another one
C4_Witness ==
    /\ build = "staged"
    /\ \E r \in Reqs :
          /\ req[r].pc = "done" /\ req[r].status = 200
          /\ Len(req[r].body.edges) >= 1
          /\ Len(req[r].collectedEdges) > Len(req[r].body.edges)

\* C5 (as claimed): interleaved handler: every edge of a stored network has
\* its source and its target in the stored node list.
C5_InterleavedEdgesClosed ==
    build \in {"interleaved", "sequential"}
        => \A j \in 1..Len(networks) : EdgesClosed(networks[j])

Stored(doi, depth) ==
    \E j \in 1..Len(networks) :
        networks[j].rootDoi = doi /\ networks[j].depth = depth

NoTasks(t) == \A pmid \in Ids : t.task[pmid].pc = "none"

\* C6: when the store holds a network for (rootDoi, depth) at the memo check
\* of a request for that pair, the request is answered with a stored network of
\* that pair, with no upstream call and no write to the stores or the cache,
\* and the request does nothing afterwards; whatever the memo check answers
\* is a stored network of the requested pair.
C6_MemoHit ==
    [][\A r \in Reqs :
          /\ (req[r].pc = "memo" /\ req'[r] /= req[r]
                /\ Stored(req[r].doi, req[r].depth))
             => /\ req'[r].pc = "done" /\ req'[r].status = 200
                /\ req'[r].body \in Range(networks)
                /\ req'[r].body.rootDoi = req[r].doi
                /\ req'[r].body.depth = req[r].depth
                /\ req'[r].calls = 0 /\ req'[r].writes = 0
                /\ NoTasks(req'[r])
                /\ networks' = networks /\ papers' = papers /\ cache' = cache
          /\ (req[r].pc = "memo" /\ req'[r].pc = "done")
             => /\ req'[r].body \in Range(networks)
                /\ req'[r].body.rootDoi = req[r].doi
                /\ req'[r].body.depth = req[r].depth
          /\ (req[r].pc = "done" /\ NoTasks(req[r])) => req'[r] = req[r]]_vars

\* a request served from the row that another request has created
C6_Witness ==
    \E r1, r2 \in Reqs :
        /\ req[r1].pc = "done" /\ req[r1].status = 200 /\ req[r1].writes > 0
        /\ req[r2].pc = "done" /\ req[r2].status = 200 /\ req[r2].calls = 0
        /\ req[r2].body = req[r1].body

\* C7 (as claimed): the store holds at most one network per (rootDoi, depth),
\* also after overlapping requests for the same pair.
C7_AtMostOneNetwork ==
    \A a, b \in 1..Len(networks) :
        (networks[a].rootDoi = networks[b].rootDoi
           /\ networks[a].depth = networks[b].depth) => a = b

\* C8: when the resolver finds no match, the request is answered 404, no
\* traversal call is made and nothing is written: the stores stay as they were.
C8_NoMatchIs404 ==
    \A r \in Reqs :
        req[r].upstream = "nomatch"
        => /\ req[r].pc = "done" /\ req[r].status = 404
           /\ NoTasks(req[r])
           /\ req[r].allPmids = <<>> /\ req[r].processedPmids = {}
           /\ req[r].calls = 1 /\ req[r].writes = 0
           /\ networks = <<>> /\ papers = <<>>

C8_Witness ==
    \E r \in Reqs : req[r].upstream = "nomatch" /\ req[r].status = 404

\* C9 (as claimed): NotFound is reported only when the upstream returned zero
\* matches; a query that could not complete is reported differently.
C9_NotFoundOnlyOnNoMatch ==
    \A r \in Reqs : req[r].status = 404 => req[r].upstream = "nomatch"

\* C10 (as claimed): a fetch of an id whose cache file exists, whatever its
\* content, issues no network call, returns the stored content and leaves
\* the cache as it was.
C10_CachedFetch ==
    (preq.pc \in {"create", "done"} /\ preq.before /= NoFile)
    => /\ preq.net = 0
       /\ preq.xml = preq.before
       /\ preq.after = preq.before

\* ---- C11
\* the visited-set and the edge list a traversal writes to
Visited(t) == Range(t.allPmids) \cup t.processedPmids
Recorded(t) == IF build = "staged" THEN t.collectedEdges ELSE t.edges

\* the step is a step of the expansion of pmid: one of its two loops ran
Expands(t, u, pmid) ==
    /\ t.task[pmid].pc \in {"citing", "citingWait", "related", "relatedWait"}
    /\ \/ u.task[pmid] /= t.task[pmid]
       \/ u.awaited[pmid] /= t.awaited[pmid]
       \/ u.rest[pmid] /= t.rest[pmid]

\* the edges a step appended, and the ids it discovered
NewEdges(t, u) ==
    {Recorded(u)[j] : j \in (Len(Recorded(t)) + 1)..Len(Recorded(u))}
Discovered(t, u) == Visited(u) \ Visited(t)

EdgeDirection(t, u, pmid) ==
    Expands(t, u, pmid)
    => /\ Len(Recorded(u)) >= Len(Recorded(t))
       /\ SubSeq(Recorded(u), 1, Len(Recorded(t))) = Recorded(t)
       /\ Len(Recorded(u)) - Len(Recorded(t)) = Cardinality(Discovered(t, u))
       /\ NewEdges(t, u) =
             IF t.task[pmid].pc \in {"citing", "citingWait"}
             THEN {Edge(n, pmid) : n \in Discovered(t, u)}
             ELSE {Edge(pmid, n) : n \in Discovered(t, u)}

\* a depth 1 answer whose root had an empty related list: the root at level
\* 0, every other node n at level 1, with the edge n -> root when the root
\* is a node too, and no other edge
DepthOneCiting(t) ==
    (t.pc = "done" /\ t.status = 200 /\ t.depth = 1 /\ "related" \in t.rootEmpty)
    => /\ \A j \in 1..Len(t.body.nodes) :
            LET n == t.body.nodes[j] IN
            IF n.id = t.rootPmid THEN n.level = 0
            ELSE /\ n.level = 1
                 /\ t.rootPmid \in NodeIds(t.body.nodes)
                      => Edge(n.id, t.rootPmid) \in Range(t.body.edges)
       /\ \A j \in 1..Len(t.body.edges) :
            /\ t.body.edges[j].target = t.rootPmid
            /\ t.body.edges[j].source /= t.rootPmid

\* C11: every edge recorded while a node is expanded from its citing list
\* goes from the discovered neighbour to the expanded node, every edge recorded
\* from its related list goes from the expanded node to the discovered
\* neighbour; for depth 1 and an empty related list of the root, the answer
\* holds the root at level 0, the citing neighbours at level 1 and only edges
\* neighbour -> root.
C11_EdgeDirection ==
    /\ [][\A r \in Reqs, pmid \in Ids : EdgeDirection(req[r], req'[r], pmid)]_vars
    /\ [](\A r \in Reqs : DepthOneCiting(req[r]))

\* the scenario: root 1 with citing list [2, 3] and an empty related list
C11_Witness ==
    \E r \in Reqs :
      /\ req[r].pc = "done" /\ req[r].status = 200 /\ req[r].depth = 1
      /\ "related" \in req[r].rootEmpty
      /\ req[r].body.nodes \in
            {<<[id |-> 1, level |-> 0], [id |-> 2, level |-> 1], [id |-> 3, level |-> 1]>>,
             <<[id |-> 1, level |-> 0], [id |-> 3, level |-> 1], [id |-> 2, level |-> 1]>>}
      /\ req[r].body.edges = <<Edge(2, 1), Edge(3, 1)>>

\* ---- C12
\* a successful answer of depth >= 1 whose root got two empty link lists
RootAlone(t) ==
    /\ t.pc = "done" /\ t.status = 200 /\ t.depth >= 1
    /\ t.rootEmpty = {"citing", "related"}

\* C12 (as claimed): for depth >= 1, a root that resolves and whose two
\* link-discovery calls return empty lists gives a network of exactly one
\* node, the root at level 0, and no edge.
C12_RootAloneOneNode ==
    \A r \in Reqs :
      RootAlone(req[r])
      => /\ req[r].body.nodes = <<[id |-> req[r].rootPmid, level |-> 0]>>
         /\ req[r].body.edges = <<>>

\* C12 (amended): such a network has no edge and no node other than the root
\* at level 0; it holds that node when the metadata of the root was fetched
\* and parsed, and no node when the fetch or the parse failed.
C12_RootAloneAtMostRoot ==
    \A r \in Reqs :
      RootAlone(req[r])
      => /\ req[r].body.edges = <<>>
         /\ req[r].body.nodes =
               IF req[r].rootPmid \in req[r].failed
               THEN <<>> ELSE <<[id |-> req[r].rootPmid, level |-> 0]>>

\* the largest depth, two empty link lists, the record of the root parsed
C12_Witness ==
    \E r \in Reqs :
      /\ RootAlone(req[r])
      /\ req[r].body.nodes = <<[id |-> req[r].rootPmid, level |-> 0]>>
      /\ req[r].depth = MaxDepth

\* ---- C13
AtMostOnce(t) ==
    \A pmid \in Ids :
      /\ t.marks[pmid] <= 1
      /\ t.fetches[pmid] <= 1
      /\ t.marks[pmid] = 1 <=> pmid \in Visited(t)
      /\ t.fetches[pmid] = 1 => pmid \in Visited(t)

\* C13: within one traversal, under every interleaving of its branches, each
\* id passes the visited test at most once and its metadata fetch is issued
\* at most once, exactly the ids that passed the test are in the visited-set,
\* and the visited-set never loses an id.
C13_CheckAndMarkOnce ==
    /\ [](\A r \in Reqs : AtMostOnce(req[r]))
    /\ [][\A r \in Reqs : Visited(req[r]) \subseteq Visited(req'[r])]_vars

\* two sibling branches of the root ran concurrently: three ids visited,
\* each fetched once
C13_Witness ==
    \E r \in Reqs :
      /\ build = "interleaved"
      /\ req[r].pc = "done" /\ req[r].status = 200
      /\ Cardinality(Visited(req[r])) = 3
      /\ \A pmid \in Visited(req[r]) : req[r].fetches[pmid] = 1
      /\ Len(req[r].body.edges) = 2
      /\ \E p \in Ids, q \in Ids :
            /\ p /= q /\ req[r].task[p].depth = 1 /\ req[r].task[q].depth = 1
            /\ req[r].task[p].parent = req[r].rootPmid
            /\ req[r].task[q].parent = req[r].rootPmid

\* ---- C14
\* C14: once the root is resolved, whatever metadata fetches, parses and link
\* discoveries fail, the request is never stuck, and when it ends it ends with
\* status 200 and its network in the store.
C14_PartialNetworkSucceeds ==
    \A r \in {1} :
      req[r].rootPmid /= NoPmid
      => /\ req[r].pc /= "done" => ENABLED Step(r)
         /\ req[r].pc = "done"
              => /\ req[r].status = 200
                 /\ req[r].body \in Range(networks)
                 /\ req[r].body.rootDoi = req[r].doi
                 /\ req[r].body.depth = req[r].depth

\* the fetch or parse of one id failed and the traversal went on: the stored
\* network holds two other nodes
C14_Witness ==
    \E r \in Reqs :
      /\ req[r].pc = "done" /\ req[r].status = 200
      /\ req[r].failed /= {}
      /\ Len(req[r].body.nodes) = 2
      /\ req[r].body \in Range(networks)

\* ---- C15
\* C15: interleaved handlers: an id whose metadata fetch or parse failed has
\* no node, stays in the visited-set, and is fetched once only for the rest
\* of the traversal, whatever the later link answers name.
C15_FailedIdKeepsSlot ==
    build \in {"interleaved", "sequential"}
    => \A r \in Reqs : \A pmid \in req[r].failed :
         /\ pmid \notin NodeIds(req[r].nodes)
         /\ pmid \in req[r].processedPmids
         /\ req[r].fetches[pmid] = 1
         /\ req[r].marks[pmid] = 1
         /\ req[r].pc = "done" /\ req[r].status = 200
              => pmid \notin NodeIds(req[r].body.nodes)

\* the fetch of an id at depth 1 failed, and the traversal went on: a sibling
\* of it was fetched, expanded (depth 2 requested) and became a node
C15_Witness ==
    \E r \in Reqs : \E pmid \in req[r].failed :
      /\ build = "interleaved"
      /\ req[r].pc = "done" /\ req[r].status = 200 /\ req[r].depth = 2
      /\ req[r].task[pmid].depth = 1
      /\ \E n \in NodeIds(req[r].body.nodes) :
            n /= pmid /\ req[r].task[n].depth = 1
      /\ Len(req[r].body.nodes) = 2

\* ---- C16
\* phase 1 of the request is over
Phase1Over(t) == t.pc = "phase2"

\* C16 (as claimed): staged handler, fixed upstream link graph: two runs of
\* the same request that differ in the completion order of their
\* link-discovery calls only end phase 1 with the same visited ids and the
\* same level for each id.
C16_StagedLevelsDeterministic ==
    (/\ Phase1Over(req[1]) /\ Phase1Over(req[2])
     /\ req[1].doi = req[2].doi /\ req[1].depth = req[2].depth)
    => /\ Range(req[1].allPmids) = Range(req[2].allPmids)
       /\ req[1].pmidLevels = req[2].pmidLevels

\* ---- C17
\* the ids the upstream links to from pmid, and the ids within n links of pmid
Neighbours(pmid) == Range(graph.citing[pmid]) \cup Range(graph.related[pmid])
RECURSIVE Within(_, _)
Within(pmid, n) ==
    IF n = 0 THEN {pmid}
    ELSE LET near == Within(pmid, n - 1)
         IN near \cup UNION {Neighbours(i) : i \in near}

\* C17 (as claimed): staged handler: when phase 1 has finished, every id
\* within maxDepth links of the root is in the visited-set, whatever the
\* completion order of the link-discovery calls.
C17_StagedVisitsAllReachable ==
    \A r \in Reqs :
      Phase1Over(req[r])
      => Within(req[r].rootPmid, req[r].depth) \subseteq Range(req[r].allPmids)

\* ---- C18
\* C18 (as claimed): findSimilarPapers and getRelatedPapers return at most
\* maxResults ids for every well-formed response, also when the response
\* holds several linksetdbs with the matching linkname.
C18_AtMostLimit ==
    (link.pc = "done" /\ WellFormed(link.data))
    => Len(link.result) <= link.maxResults

\* ---- C19
\* C19 (as claimed): findSimilarPapers and getRelatedPapers return the empty
\* list whenever the upstream call fails or its response is malformed.
C19_EmptyOnFailure ==
    (link.pc = "done" /\ ~WellFormed(link.data))
    => link.result = <<>>

\* ---- C20
\* the fetch of the GET /api/paper request found no cache file and the
\* upstream answered with a payload
MissAndSuccess ==
    /\ preq.pc \in {"create", "done"}
    /\ preq.net = 1 /\ preq.before = NoFile /\ preq.up /= Fail

\* C20: on a cache miss with a successful upstream response, fetchPaperXml
\* returns the upstream payload; the cache then holds exactly that payload for
\* the id when the cache write succeeded, and the payload is returned all the
\* same when the write failed.
C20_MissWritesThrough ==
    MissAndSuccess
    => /\ preq.xml = preq.up
       /\ preq.writeOk => preq.after = preq.up

\* a miss, a good payload and a failed cache write
C20_Witness ==
    /\ MissAndSuccess
    /\ preq.up = "ok" /\ ~preq.writeOk
    /\ preq.xml = "ok" /\ preq.after = NoFile

\* ---- C21
\* the fetch of the GET /api/paper request found no cache file and the
\* upstream call threw or answered with a status that is not OK
MissAndFailure ==
    preq.up = Fail /\ preq.before = NoFile

\* C21: on a cache miss with a failing upstream call, fetchPaperXml issues
\* exactly one network call, returns null without raising (the request is
\* answered 404, never 500) and leaves the cache without a file for the id.
C21_MissAndFailure ==
    MissAndFailure
    => /\ preq.net = 1
       /\ preq.xml = Null
       /\ preq.after = NoFile
       /\ preq.pc = "done" /\ preq.status = 404

\* a failed fetch of an id that has no cache file, answered 404
C21_Witness ==
    /\ MissAndFailure
    /\ preq.pc = "done" /\ preq.status = 404
    /\ preq.net = 1 /\ cache[preq.pmid] = NoFile


\* ---- C22
\* C22 (as claimed): the paper store holds at most one record per internal id
\* and no request, traversal or GET /api/paper, fails because the record of
\* the paper it saves already exists.
C22_SavePaperIdempotent ==
    /\ \A a, b \in 1..Len(papers) : a /= b => papers[a].pmid /= papers[b].pmid
    /\ \A r \in Reqs : req[r].status /= 500
    /\ \A r \in Reqs, p \in Ids : req[r].task[p].pc /= "failed"
    /\ preq.status /= 500


\* ---- C23
\* the doi of the validate-doi body is missing, falsy or not a string
NoStringDoi == ~vreq.body.truthy \/ vreq.body.type /= "string"

\* C23: a generate-network request without a doi is answered 400 in the step
\* it arrives, so it never waits on the store or on the upstream: no upstream
\* call, no store read, no store write; a validate-doi request whose doi is
\* missing or not a string is answered 400 and causes no upstream call.
C23_MissingDoiIs400 ==
    /\ \A r \in Reqs :
          (req[r].pc /= "idle" /\ req[r].doi = NoDoi)
          => /\ req[r].pc = "done" /\ req[r].status = 400
             /\ req[r].calls = 0 /\ req[r].writes = 0
             /\ req[r].upstream = "none" /\ NoTasks(req[r])
    /\ \A r \in Reqs : req[r].status = 400 => req[r].doi = NoDoi
    /\ (vreq.pc /= "idle" /\ NoStringDoi)
       => vreq.pc = "done" /\ vreq.status = 400 /\ vreq.calls = 0
    /\ vreq.status = 400 => NoStringDoi

\* both requests were answered 400, the validate-doi one for a number
C23_Witness ==
    /\ req[1].status = 400 /\ req[1].doi = NoDoi
    /\ vreq.status = 400 /\ vreq.body.type = "number" /\ vreq.body.truthy


\* ---- C24
\* no traversal call of the request is between its launch and its return
NoneRunning(t) == \A pmid \in Ids : t.task[pmid].pc \in {"none", "done", "failed"}

\* the request is waiting for createCitationNetwork, or was answered with
\* the network it stored
AtStoreCall(t) == t.pc = "store" \/ (t.pc = "done" /\ t.status = 200)

\* C24: from the call of createCitationNetwork on, no traversal call launched
\* for the request is still running, and the node list and the edge list of
\* the request are not written to any more.
C24_StoreAfterTraversal ==
    /\ [](\A r \in Reqs : AtStoreCall(req[r]) => NoneRunning(req[r]))
    /\ [][\A r \in Reqs : AtStoreCall(req[r])
            => /\ req'[r].nodes = req[r].nodes
               /\ req'[r].edges = req[r].edges]_vars

\* the interleaved handler calls the store after a traversal of three ids,
\* one of them at depth 2
C24_Witness ==
    /\ build = "interleaved"
    /\ req[1].pc = "store"
    /\ Len(req[1].nodes) = 3 /\ Len(req[1].edges) >= 2
    /\ \E p \in Ids : req[1].task[p].pc = "done" /\ req[1].task[p].depth = 2


\* ---- C25
\* the traversal call for pmid has returned or thrown
Completed(t, pmid) == t.task[pmid].pc \in {"done", "failed"}

\* C25 (as claimed): a traversal call has completed, successfully or with an
\* error, only when every child call it launched has completed.
C25_JoinWaitsForAll ==
    \A r \in Reqs, pmid \in Ids :
        Completed(req[r], pmid)
        => \A c \in Children(req[r], pmid) : Completed(req[r], c)


\* ---- C26
\* link discovery for pmid has started: its traversal call has issued
\* findSimilarPapers and has not returned yet
LinksStarted(t, pmid) ==
    t.task[pmid].pc \in {"citing", "citingWait", "related", "relatedWait", "join"}

\* C26: while link discovery for an id is under way the id is in the
\* visited-set, marked once; in the staged handler its level is recorded, in
\* the other handlers its metadata was fetched and parsed and its node, with
\* the depth of the call as level, is in the node list.
C26_LinksAfterMark ==
    \A r \in Reqs, pmid \in Ids :
        LinksStarted(req[r], pmid)
        => /\ pmid \in Visited(req[r])
           /\ req[r].marks[pmid] >= 1
           /\ build = "staged" => req[r].pmidLevels[pmid] /= NoLevel
           /\ build /= "staged"
              => /\ req[r].fetches[pmid] = 1
                 /\ pmid \notin req[r].failed
                 /\ \E j \in 1..Len(req[r].nodes) :
                       /\ req[r].nodes[j].id = pmid
                       /\ req[r].nodes[j].level = req[r].task[pmid].depth

\* the interleaved handler waits for the citing links of an id of depth 1
\* whose node is in the list
C26_Witness ==
    /\ build = "interleaved"
    /\ \E pmid \in Ids :
          /\ req[1].task[pmid].pc = "citing"
          /\ req[1].task[pmid].depth = 1
          /\ [id |-> pmid, level |-> 1] \in Range(req[1].nodes)


\* ---- C27
\* a metadata fetch of the staged handler has been issued
FetchIssued(t) == t.inflight /= {} \/ \E pmid \in Ids : t.fetches[pmid] > 0

\* phase 3 of the staged handler has parsed a record or is parsing one
ParseStarted(t) ==
    t.pc \in {"p3parse", "p3get", "p3create"} \/ t.nodes /= <<>> \/ t.k > 0

\* C27: in the staged handler no metadata fetch is issued before every
\* link-discovery call of phase 1 has returned, and no record is parsed and no
\* node is created before every id of the visited-set has been fetched and
\* every fetch of phase 2 has returned.
C27_PhasesInOrder ==
    \A r \in Reqs :
        build = "staged"
        => /\ FetchIssued(req[r])
              => \A pmid \in Ids : req[r].task[pmid].pc \in {"none", "done"}
           /\ ParseStarted(req[r])
              => /\ req[r].inflight = {}
                 /\ \A pmid \in Range(req[r].allPmids) : req[r].fetches[pmid] = 1
           /\ req[r].pc = "phase1" => ~FetchIssued(req[r]) /\ ~ParseStarted(req[r])
           /\ req[r].pc = "phase2" => ~ParseStarted(req[r])

\* phase 3 parses the second record of a visited-set of three ids
C27_Witness ==
    /\ build = "staged"
    /\ req[1].pc = "p3parse" /\ req[1].k = 2
    /\ Len(req[1].allPmids) = 3
    /\ Len(req[1].nodes) = 1


\* ---- C28
\* the batch of the j-th id of pmidArray, counted from 0
BatchOf(j) == (j - 1) \div batchSize

\* C28: in phase 2 of the staged handler no id is fetched twice and no id
\* outside the visited-set is fetched, every id of the visited-set has been
\* fetched once when the phase ends, at most batchSize (10) fetches are in
\* flight, and while a fetch of a batch is in flight every fetch of the earlier
\* batches has returned and no fetch of a later batch has been issued.
C28_BatchesInSequence ==
    LET n == Len(p2.allPmids) IN
    /\ \A j \in 1..MaxPmids : p2.issued[j] <= 1
    /\ \A j \in 1..MaxPmids : j > n => p2.issued[j] = 0
    /\ p2.pc = "phase3" => \A j \in 1..n : p2.issued[j] = 1
    /\ p2.inflight \subseteq {j \in 1..n : p2.issued[j] = 1}
    /\ Cardinality(p2.inflight) <= batchSize
    /\ \A a \in p2.inflight, j \in 1..n :
          /\ BatchOf(j) < BatchOf(a) => p2.issued[j] = 1 /\ j \notin p2.inflight
          /\ BatchOf(j) > BatchOf(a) => p2.issued[j] = 0

\* the second batch of a visited-set of more than batchSize ids is in flight
C28_Witness ==
    /\ p2.pc = "phase2"
    /\ Len(p2.allPmids) > batchSize
    /\ p2.i = batchSize
    /\ p2.inflight = {j \in 1..Len(p2.allPmids) : j > batchSize}
    /\ \A j \in 1..batchSize : p2.issued[j] = 1


\* ---- C29
\* the staged handler has built its final node list
StagedFinal(t) ==
    build = "staged" /\ (t.pc = "store" \/ (t.pc = "done" /\ t.status = 200))

\* C29: the final node list of the staged handler holds an id exactly when
\* the id is in the visited-set and neither its fetch nor its parse failed, and
\* the level of each node is the level phase 1 recorded for its id.
C29_StagedNodes ==
    \A r \in Reqs :
        StagedFinal(req[r])
        => /\ NodeIds(req[r].nodes) = Range(req[r].allPmids) \ req[r].failed
           /\ \A j \in 1..Len(req[r].nodes) :
                 req[r].nodes[j].level = req[r].pmidLevels[req[r].nodes[j].id]

\* three visited ids: the fetch of one failed, the parse of another failed,
\* the third, of depth 1, is the only node
C29_Witness ==
    /\ StagedFinal(req[1])
    /\ Len(req[1].allPmids) = 3 /\ Len(req[1].xmlData) = 2
    /\ Cardinality(req[1].failed) = 2
    /\ Len(req[1].nodes) = 1 /\ req[1].nodes[1].level = 1


\* ---- C30
\* the traversal call for pmid passed the depth test and has returned: in the
\* staged handler every call below the requested depth, in the other handlers
\* those whose metadata was fetched and parsed
Expanded(t, pmid) ==
    /\ t.task[pmid].pc = "done"
    /\ t.task[pmid].depth < t.depth
    /\ build = "staged" \/ pmid \notin t.failed

\* C30: no findSimilarPapers or getRelatedPapers call is issued for an id
\* processed at the requested depth; an id expanded below that depth gets one
\* call of each, and no id gets more; a request of depth 0 issues no
\* link-discovery call, has no edge and has at most the root as node.
C30_LinkCallsByDepth ==
    \A r \in Reqs :
        /\ \A pmid \in Ids :
              /\ req[r].citingCalls[pmid] <= 1
              /\ req[r].relatedCalls[pmid] <= req[r].citingCalls[pmid]
              /\ req[r].citingCalls[pmid] > 0
                 => /\ req[r].task[pmid].pc /= "none"
                    /\ req[r].task[pmid].depth < req[r].depth
              /\ Expanded(req[r], pmid)
                 => /\ req[r].citingCalls[pmid] = 1
                    /\ req[r].relatedCalls[pmid] = 1
        /\ req[r].depth = 0
           => /\ \A pmid \in Ids : req[r].citingCalls[pmid] = 0
              /\ req[r].edges = <<>> /\ req[r].collectedEdges = <<>>
              /\ Len(req[r].nodes) <= 1
              /\ NodeIds(req[r].nodes) \subseteq {req[r].rootPmid}

\* a traversal of depth 2 has returned: the root and an id of depth 1 were
\* expanded, an id of depth 2 was processed without a link-discovery call
C30_Witness ==
    /\ req[1].depth = 2 /\ req[1].pc = "store"
    /\ Expanded(req[1], req[1].rootPmid)
    /\ \E a, b \in Ids :
          /\ req[1].task[a].depth = 1 /\ Expanded(req[1], a)
          /\ req[1].task[b].depth = 2 /\ req[1].task[b].pc = "done"
          /\ req[1].citingCalls[b] = 0 /\ req[1].relatedCalls[b] = 0
          /\ b \in NodeIds(req[1].nodes)


\* ---- C31
\* s is a prefix of u
IsPrefix(s, u) == Len(s) <= Len(u) /\ \A j \in 1..Len(s) : u[j] = s[j]

\* C31: in the interleaved and the sequential handler every id is marked by
\* one call, whose depth never changes; the level of each node is the depth
\* of the call that marked its id, and a node, once pushed, is never changed,
\* also when a later link answer names its id nearer to the root.
C31_LevelOfMarkingCall ==
    /\ [](\A r \in Reqs :
            build /= "staged"
            => \A j \in 1..Len(req[r].nodes) :
                  /\ req[r].marks[req[r].nodes[j].id] = 1
                  /\ req[r].nodes[j].level = req[r].task[req[r].nodes[j].id].depth)
    /\ [][\A r \in Reqs :
            build /= "staged"
            => /\ IsPrefix(req[r].nodes, req'[r].nodes)
               /\ \A pmid \in Ids :
                     req[r].task[pmid].pc /= "none"
                     => /\ req'[r].task[pmid].depth = req[r].task[pmid].depth
                        /\ req'[r].marks[pmid] = req[r].marks[pmid]]_vars

\* the interleaved handler stores a node of level 2 whose id a link answer
\* of the root named as well
C31_Witness ==
    /\ build = "interleaved" /\ req[1].pc = "store"
    /\ \E j \in 1..Len(req[1].nodes) :
          /\ req[1].nodes[j].level = 2
          /\ req[1].offered[req[1].nodes[j].id] = 1


\* ---- C32
\* C32: in every stored network metadata.totalNodes is the length of the
\* stored node list, metadata.totalEdges the length of the stored edge list,
\* and metadata.maxDepth and the depth of the network are the depth of the
\* request that stored it.
C32_MetadataMatches ==
    \A j \in 1..Len(networks) :
        /\ networks[j].metadata.totalNodes = Len(networks[j].nodes)
        /\ networks[j].metadata.totalEdges = Len(networks[j].edges)
        /\ networks[j].metadata.maxDepth = networks[j].depth
        /\ \E r \in Reqs :
              /\ req[r].pc = "done" /\ req[r].body = networks[j]
              /\ req[r].depth = networks[j].depth
              /\ req[r].doi = networks[j].rootDoi

\* the staged handler stored a network of depth 2 with two nodes and one
\* edge, after the filter dropped a collected edge
C32_Witness ==
    /\ build = "staged" /\ Len(networks) = 1
    /\ networks[1].depth = 2
    /\ Len(networks[1].nodes) = 2 /\ Len(networks[1].edges) = 1
    /\ Len(req[1].collectedEdges) = 2


\* ---- C33
\* the recorded edges that join a visited id and the id whose expansion
\* discovered it
TreeEdges(t, pmid) ==
    {j \in 1..Len(Recorded(t)) :
        \/ /\ Recorded(t)[j].source = pmid
           /\ Recorded(t)[j].target = t.task[pmid].parent
        \/ /\ Recorded(t)[j].target = pmid
           /\ Recorded(t)[j].source = t.task[pmid].parent}

\* C33: the edges a traversal records, before any filter, form a tree over
\* the visited-set: every visited id but the root was discovered by one
\* expansion and is an endpoint of exactly one edge that joins it to the
\* expanded id, every recorded edge is such an edge, there are
\* |visited-set| - 1 edges, none joins an id to itself and no two have the
\* same source and target.
C33_RecordedEdgesAreTree ==
    \A r \in Reqs :
        LET t == req[r]
            E == Recorded(t)
        IN /\ \A pmid \in Visited(t) \ {t.rootPmid} :
                 /\ t.task[pmid].parent \in Visited(t)
                 /\ Cardinality(TreeEdges(t, pmid)) = 1
           /\ \A j \in 1..Len(E) :
                 \E pmid \in Visited(t) \ {t.rootPmid} : j \in TreeEdges(t, pmid)
           /\ Visited(t) /= {} => Len(E) = Cardinality(Visited(t)) - 1
           /\ Visited(t) = {} => E = <<>>
           /\ \A j \in 1..Len(E) : E[j].source /= E[j].target
           /\ \A j, k \in 1..Len(E) : j /= k => E[j] /= E[k]

\* three visited ids and two recorded edges, although link answers named the
\* root and an id of depth 2 a second time
C33_Witness ==
    /\ req[1].pc = "store"
    /\ Cardinality(Visited(req[1])) = 3 /\ Len(Recorded(req[1])) = 2
    /\ req[1].offered[req[1].rootPmid] /= NoLevel
    /\ \E pmid \in Ids : req[1].task[pmid].depth = 2 /\ req[1].offered[pmid] = 1


\* ---- C34
\* the levels the node list gives to the two endpoints of edge e differ by 1
LevelsDifferByOne(nodes, e) ==
    \E a, b \in 1..Len(nodes) :
        /\ nodes[a].id = e.source /\ nodes[b].id = e.target
        /\ \/ nodes[a].level = nodes[b].level + 1
           \/ nodes[b].level = nodes[a].level + 1

\* C34 (as claimed): for every edge of a stored network the levels of its
\* two endpoints differ by exactly 1.
C34_EdgeLevelsDifferByOne ==
    \A j \in 1..Len(networks) :
        \A k \in 1..Len(networks[j].edges) :
            LevelsDifferByOne(networks[j].nodes, networks[j].edges[k])


\* ---- C36
\* the interleaved or the sequential handler resolved the root and the
\* fetch or the parse of the root's metadata failed
RootFailed(t) ==
    build /= "staged" /\ t.rootPmid /= NoPmid /\ t.rootPmid \in t.failed

\* C36: when the root resolves and its metadata fetch or parse fails, the
\* interleaved handler issues no link-discovery call, visits no other id,
\* goes on to the store call and answers 200 with a stored network of zero
\* nodes and zero edges.
C36_RootFailureStoresEmpty ==
    \A r \in {1} :
        RootFailed(req[r])
        => /\ \A pmid \in Ids :
                 req[r].citingCalls[pmid] = 0 /\ req[r].relatedCalls[pmid] = 0
           /\ Visited(req[r]) = {req[r].rootPmid}
           /\ req[r].nodes = <<>> /\ req[r].edges = <<>>
           /\ req[r].pc /= "done" => ENABLED Step(r)
           /\ req[r].pc = "done"
              => /\ req[r].status = 200
                 /\ req[r].body \in Range(networks)
                 /\ req[r].body.nodes = <<>> /\ req[r].body.edges = <<>>
                 /\ req[r].body.metadata.totalNodes = 0

\* a request of depth 2 whose root did not parse was answered with the empty
\* network it stored
C36_Witness ==
    /\ build = "interleaved" /\ RootFailed(req[1])
    /\ req[1].depth = 2 /\ req[1].fetches[req[1].rootPmid] = 1
    /\ req[1].pc = "done" /\ req[1].status = 200
    /\ Len(networks) = 1 /\ networks[1].nodes = <<>>


\* ---- C35
\* the network stored first for (doi, depth)
FirstStored(doi, depth) ==
    networks[CHOOSE j \in 1..Len(networks) :
                /\ networks[j].rootDoi = doi /\ networks[j].depth = depth
                /\ \A k \in 1..(j - 1) :
                      ~(networks[k].rootDoi = doi /\ networks[k].depth = depth)]

\* C35 (as claimed): a request that finds a network stored for its pair is
\* answered with the nodes, edges and metadata of the network that was stored
\* for the pair first.
C35_StoredNetworkIsStable ==
    \A r \in Reqs :
        (req[r].pc = "done" /\ req[r].status = 200 /\ req[r].writes = 0)
        => LET n == FirstStored(req[r].doi, req[r].depth)
           IN /\ req[r].body.nodes = n.nodes
              /\ req[r].body.edges = n.edges
              /\ req[r].body.metadata = n.metadata


\* ---- C37
\* C37: in the interleaved and the sequential handler an id whose metadata
\* fetch or parse failed gets no link-discovery call and discovers no id, so
\* every visited id but the root was discovered by an id that has metadata; in
\* the staged handler an id below the requested depth gets its two
\* link-discovery calls whether or not its metadata can be fetched.
C37_FailedIdNotExpanded ==
    \A r \in Reqs :
        /\ build /= "staged"
           => /\ \A pmid \in req[r].failed :
                    /\ req[r].citingCalls[pmid] = 0
                    /\ req[r].relatedCalls[pmid] = 0
                    /\ Children(req[r], pmid) = {}
                    /\ req[r].task[pmid].pc = "done"
              /\ \A pmid \in Visited(req[r]) \ {req[r].rootPmid} :
                    req[r].task[pmid].parent \notin req[r].failed
        /\ build = "staged"
           => \A pmid \in req[r].failed :
                 req[r].task[pmid].depth < req[r].depth
                 => /\ req[r].citingCalls[pmid] = 1
                    /\ req[r].relatedCalls[pmid] = 1

\* the interleaved handler ends a traversal of depth 2 in which an id of
\* depth 1 has no metadata and was not expanded, next to one that was
C37_Witness ==
    /\ build = "interleaved" /\ req[1].pc = "store" /\ req[1].depth = 2
    /\ \E a, b \in Ids :
          /\ a \in req[1].failed /\ req[1].task[a].depth = 1
          /\ req[1].citingCalls[a] = 0
          /\ req[1].task[b].depth = 1 /\ req[1].citingCalls[b] = 1

\* ---- C38
\* C38: when every call a generate-network request waits for returns, the
\* request that has arrived is answered in the end, whatever the link answers
\* name (the id asked about, the root, ids already visited) and whatever the
\* depth; no id is marked or expanded twice.
C38_EveryRequestAnswered ==
    /\ [](\A r \in Reqs, pmid \in Ids :
            req[r].marks[pmid] <= 1 /\ req[r].citingCalls[pmid] <= 1)
    /\ \A r \in {1} : (req[r].pc /= "idle") ~> (req[r].pc = "done")

\* a request of depth 2 was answered with a network of three nodes although
\* link answers named the root and an id of depth 2 over again
C38_Witness ==
    /\ req[1].pc = "done" /\ req[1].status = 200 /\ req[1].depth = 2
    /\ Len(req[1].body.nodes) = 3
    /\ req[1].offered[req[1].rootPmid] /= NoLevel
    /\ \E pmid \in Ids : req[1].task[pmid].depth = 2 /\ req[1].offered[pmid] = 1

=============================================================================
